---- MODULE Spec2Model ----
(***************************************************************************)
(* Model of the precinct / census-tract choropleth of election-map-analysis *)
(* (the Map component: join of geometry features with election results and  *)
(* voter registration, derived percentages, colour classification and the   *)
(* popup summary).                                                          *)
(*                                                                          *)
(* Conventions of the translation                                           *)
(*  - a value that may be undefined/null is a sequence of length 0 or 1     *)
(*    (<<>> is undefined/null, <<v>> is v);                                 *)
(*  - a JavaScript object used as an ordered mapping (the candidate         *)
(*    mapping, ageGroups) is the sequence of its Object.entries pairs;      *)
(*  - a colour string is the sequence of its characters, so that substr,    *)
(*    parseInt(.., 16), toString(16) and padStart are modelled by what they *)
(*    do;                                                                   *)
(*  - a percentage (n / d) * 100 is the pair <<100 * n, d>>; comparing it   *)
(*    with a threshold is exact rational comparison, which agrees with the  *)
(*    IEEE-754 double evaluation for every n, d below 3000 and every        *)
(*    threshold of the tables (checked exhaustively outside the model).     *)
(***************************************************************************)
EXTENDS Integers, Sequences, FiniteSets, TLC

VARIABLES precincts,          \* results.precincts, the election records in stored order
          voterCounts,        \* the registration records, district -> record
          electionDistricts,  \* electionDistricts.features
          censusTracts,       \* censusTracts.features
          precinctFeatures,   \* precincts.features of the integration example
          viewMode,           \* useState<ViewMode> of Map
          call,               \* the last operation applied and its argument
          ret,                \* what it returned
          console,            \* the lines it wrote with console.log
          memo                \* the memo table of a caller that memoizes results

vars == <<precincts, voterCounts, electionDistricts, censusTracts, precinctFeatures,
          viewMode, call, ret, console, memo>>

data == <<precincts, voterCounts, electionDistricts, censusTracts, precinctFeatures>>

(***************************************************************************)
(* Values                                                                   *)
(***************************************************************************)
None == <<>>

Some(v) == <<v>>

IsSome(o) == o # <<>>

Val(o) == o[1]

ViewMode == {"election-results", "voter-registration", "turnout",
             "age-demographics", "zohran-support"}

WriteIns == "total_writeins"

Zohran == "mamdani-z"

Digit == <<"0", "1", "2", "3", "4", "5", "6", "7", "8", "9">>

\* Number.prototype.toString() of a non-negative integer: decimal, no padding.
RECURSIVE toString(_)
toString(n) ==
    IF n < 10 THEN Digit[n + 1]
    ELSE toString(n \div 10) \o Digit[(n % 10) + 1]

(***************************************************************************)
(* Ordered mappings (Object.entries order)                                  *)
(***************************************************************************)
\* obj[key]: the value stored under key, undefined when absent.
Get(m, key) ==
    IF \E i \in 1..Len(m) : m[i][1] = key
    THEN Some(m[CHOOSE i \in 1..Len(m) : m[i][1] = key][2])
    ELSE None

\* filterWriteIns keeping every entry
filterWriteIns_KeepAll(m) == m

\* Array.prototype.filter(([key]) => key !== "total_writeins")
RECURSIVE filterWriteIns(_)
filterWriteIns(m) ==
    IF m = <<>> THEN <<>>
    ELSE IF Head(m)[1] # WriteIns
         THEN <<Head(m)>> \o filterWriteIns(Tail(m))
         ELSE filterWriteIns(Tail(m))

\* insertDesc with the comparison made strict: an entry overtakes its equals
RECURSIVE insertDesc_Unstable(_, _)
insertDesc_Unstable(s, e) ==
    IF s = <<>> THEN <<e>>
    ELSE IF Head(s)[2] > e[2]
         THEN <<Head(s)>> \o insertDesc_Unstable(Tail(s), e)
         ELSE <<e>> \o s

\* One step of a stable insertion: e goes after every entry with votes >= its own.
RECURSIVE insertDesc(_, _)
insertDesc(s, e) ==
    IF s = <<>> THEN <<e>>
    ELSE IF Head(s)[2] >= e[2]
         THEN <<Head(s)>> \o insertDesc(Tail(s), e)
         ELSE <<e>> \o s

\* Array.prototype.sort(([, a], [, b]) => b - a): descending by votes, stable
\* (ECMAScript 2019 requires sort to be stable).
RECURSIVE sortDesc(_)
sortDesc(m) ==
    IF m = <<>> THEN <<>>
    ELSE insertDesc(sortDesc(SubSeq(m, 1, Len(m) - 1)), m[Len(m)])

(***************************************************************************)
(* Join                                                                     *)
(***************************************************************************)
\* find returning the last match in stored order
RECURSIVE find_Last(_, _, _)
find_Last(seq, id, i) ==
    IF i > Len(seq) THEN None
    ELSE IF IsSome(find_Last(seq, id, i + 1)) THEN find_Last(seq, id, i + 1)
    ELSE IF seq[i].item_id = id THEN Some(seq[i])
    ELSE None

\* Array.prototype.find((p) => p.item_id === id): first match in stored order.
RECURSIVE find(_, _, _)
find(seq, id, i) ==
    IF i > Len(seq) THEN None
    ELSE IF seq[i].item_id = id THEN Some(seq[i])
    ELSE find(seq, id, i + 1)

\* getPrecinctResults taking the identifier for a position in the collection
getPrecinctResults_ByIndex(electDist) ==
    IF electDist \in 1..Len(precincts) THEN Some(precincts[electDist]) ELSE None

getPrecinctResults(electDist) == find(precincts, toString(electDist), 1)

\* voterCounts[district], undefined when the district has no record.
getVoterCounts(district) ==
    IF district \in DOMAIN voterCounts THEN Some(voterCounts[district]) ELSE None

\* getWinningCandidate taking the last entry of the sorted candidates
getWinningCandidate_Last(precinctResults) ==
    IF ~IsSome(precinctResults) THEN None
    ELSE LET candidates == sortDesc(filterWriteIns(Val(precinctResults).results))
         IN  IF candidates = <<>> THEN None
             ELSE Some(candidates[Len(candidates)][1])

getWinningCandidate(precinctResults) ==
    IF ~IsSome(precinctResults) THEN None
    ELSE LET candidates == sortDesc(filterWriteIns(Val(precinctResults).results))
         IN  IF candidates = <<>> THEN None ELSE Some(candidates[1][1])

(***************************************************************************)
(* Colours                                                                  *)
(***************************************************************************)
HexDigit == <<"0", "1", "2", "3", "4", "5", "6", "7",
              "8", "9", "a", "b", "c", "d", "e", "f">>

HexVal(c) == (CHOOSE i \in 1..16 : HexDigit[i] = c) - 1

\* parseInt(s, 16) of a string of two hex digits
parseInt16(s) == 16 * HexVal(s[1]) + HexVal(s[2])

\* Number.prototype.toString(16) of a non-negative integer
RECURSIVE toString16(_)
toString16(n) ==
    IF n < 16 THEN <<HexDigit[n + 1]>>
    ELSE toString16(n \div 16) \o <<HexDigit[(n % 16) + 1]>>

\* String.prototype.padStart(2, "0")
padStart2(s) == IF Len(s) < 2 THEN <<"0">> \o s ELSE s

\* color.replace("#", "")
stripHash(color) ==
    IF \E i \in 1..Len(color) : color[i] = "#"
    THEN LET i == CHOOSE j \in 1..Len(color) :
                      color[j] = "#" /\ \A k \in 1..(j - 1) : color[k] # "#"
         IN  SubSeq(color, 1, i - 1) \o SubSeq(color, i + 1, Len(color))
    ELSE color

\* hex.substr(start, 2), start counted from 0
substr2(hex, start) == SubSeq(hex, start + 1, start + 2)

Max(a, b) == IF a >= b THEN a ELSE b

Min(a, b) == IF a <= b THEN a ELSE b

\* Math.floor(c * (1 - amount)) for amount = amount10 / 10. The product is an
\* IEEE-754 double: for amount 0.3 the doubles 90 * 0.7, 170 * 0.7 and 180 * 0.7
\* lie just below the integers 63, 119 and 126, so the floor is one less than
\* the exact quotient; for every other channel 0..255 and for amount 0.2 the
\* double's floor is the exact one.
floorScaled(c, amount10) ==
    LET exact == (c * (10 - amount10)) \div 10
    IN  IF amount10 = 3 /\ c \in {90, 170, 180} THEN exact - 1 ELSE exact

\* Math.floor(c + (255 - c) * amount); exact for every channel 0..255 and the
\* amounts 0.2 and 0.4.
floorRaised(c, amount10) == (10 * c + (255 - c) * amount10) \div 10

darkenChannel(c, amount10) == Max(0, floorScaled(c, amount10))

lightenChannel(c, amount10) == Min(255, floorRaised(c, amount10))

\* hex2 without the padding
hex2_NoPad(n) == toString16(n)

hex2(n) == padStart2(toString16(n))

darkenColor(color, amount10) ==
    LET hex == stripHash(color)
        r == parseInt16(substr2(hex, 0))
        g == parseInt16(substr2(hex, 2))
        b == parseInt16(substr2(hex, 4))
    IN  <<"#">> \o hex2(darkenChannel(r, amount10))
               \o hex2(darkenChannel(g, amount10))
               \o hex2(darkenChannel(b, amount10))

lightenColor(color, amount10) ==
    LET hex == stripHash(color)
        r == parseInt16(substr2(hex, 0))
        g == parseInt16(substr2(hex, 2))
        b == parseInt16(substr2(hex, 4))
    IN  <<"#">> \o hex2(lightenChannel(r, amount10))
               \o hex2(lightenChannel(g, amount10))
               \o hex2(lightenChannel(b, amount10))

Hex(a, b, c, d, e, f) == <<"#", a, b, c, d, e, f>>

NoData == Hex("c", "c", "c", "c", "c", "c")

candidateBaseColors ==
    << <<"cuomo-a",    Hex("1", "f", "7", "7", "b", "4")>>,
       <<"lander-b",   Hex("f", "f", "7", "f", "0", "e")>>,
       <<"mamdani-z",  Hex("2", "c", "a", "0", "2", "c")>>,
       <<"ramos-j",    Hex("d", "6", "2", "7", "2", "8")>>,
       <<"stringer-s", Hex("9", "4", "6", "7", "b", "d")>>,
       <<"blake-m",    Hex("8", "c", "5", "6", "4", "b")>>,
       <<"myrie-z",    Hex("e", "3", "7", "7", "c", "2")>>,
       <<"tilson-w",   Hex("7", "f", "7", "f", "7", "f")>>,
       <<"adams-a",    Hex("b", "c", "b", "d", "2", "2")>> >>

TurnoutRamp ==
    << Hex("b", "e", "e", "3", "f", "8"), Hex("9", "0", "c", "d", "f", "4"),
       Hex("6", "3", "b", "3", "e", "d"), Hex("3", "1", "8", "2", "c", "e"),
       Hex("2", "c", "5", "2", "8", "2"), Hex("1", "a", "3", "6", "5", "d") >>

VotersRamp ==
    << Hex("d", "6", "2", "7", "2", "8"), Hex("f", "f", "7", "f", "0", "e"),
       Hex("f", "f", "b", "b", "7", "8"), Hex("a", "e", "c", "7", "e", "8"),
       Hex("1", "f", "7", "7", "b", "4"), Hex("0", "d", "4", "7", "a", "1") >>

ZohranRamp ==
    << Hex("c", "5", "1", "b", "7", "d"), Hex("d", "e", "7", "7", "a", "e"),
       Hex("f", "1", "b", "6", "d", "a"), Hex("d", "9", "f", "0", "a", "3"),
       Hex("b", "8", "e", "1", "8", "6"), Hex("7", "f", "b", "c", "4", "1"),
       Hex("4", "d", "9", "2", "2", "1"), Hex("2", "7", "6", "4", "1", "9") >>

GenZRamp ==
    << Hex("c", "5", "1", "b", "7", "d"), Hex("d", "e", "7", "7", "a", "e"),
       Hex("f", "1", "b", "6", "d", "a"), Hex("b", "8", "e", "1", "8", "6"),
       Hex("7", "f", "b", "c", "4", "1"), Hex("4", "d", "9", "2", "2", "1"),
       Hex("2", "7", "6", "4", "1", "9") >>

(***************************************************************************)
(* Percentages                                                              *)
(***************************************************************************)
\* (n / d) * 100 for d # 0
Pct(n, d) == <<100 * n, d>>

PctZero == <<0, 1>>

\* p >= t10 / 10
Ge(p, t10) == 10 * p[1] >= t10 * p[2]

\* p < t10 / 10
Lt(p, t10) == 10 * p[1] < t10 * p[2]

\* p > 0
Positive(p) == p[1] > 0

(***************************************************************************)
(* Precinct styles                                                          *)
(***************************************************************************)
White == <<"w", "h", "i", "t", "e">>

precinctStyle(fillColor) ==
    [fillColor |-> fillColor, weight |-> "1", opacity |-> "1", color |-> White,
     dashArray |-> Some("3"), fillOpacity |-> "0.7"]

\* shadeByMargin with the edges 50 and 60 excluded from the tiers they start
shadeByMargin_ExclusiveEdges(baseColor, winPercentage) ==
    IF Ge(winPercentage, 800) THEN darkenColor(baseColor, 3)
    ELSE IF ~Lt(winPercentage, 600) /\ winPercentage[1] * 10 # 600 * winPercentage[2]
         THEN darkenColor(baseColor, 2)
    ELSE IF ~Lt(winPercentage, 500) /\ winPercentage[1] * 10 # 500 * winPercentage[2]
         THEN baseColor
    ELSE IF Ge(winPercentage, 400) THEN lightenColor(baseColor, 2)
    ELSE lightenColor(baseColor, 4)

\* the tier chain of stylePrecinctByResults
shadeByMargin(baseColor, winPercentage) ==
    IF Ge(winPercentage, 800) THEN darkenColor(baseColor, 3)
    ELSE IF Ge(winPercentage, 600) THEN darkenColor(baseColor, 2)
    ELSE IF Ge(winPercentage, 500) THEN baseColor
    ELSE IF Ge(winPercentage, 400) THEN lightenColor(baseColor, 2)
    ELSE lightenColor(baseColor, 4)

\* stylePrecinctByResults leaving the fallback grey of an unknown winner unshaded
stylePrecinctByResults_UnknownUnshaded(feature) ==
    LET electDist == feature.properties.ElectDist
        precinctResults == getPrecinctResults(electDist)
        winningCandidate == getWinningCandidate(precinctResults)
    IN  IF ~IsSome(precinctResults) \/ ~IsSome(winningCandidate)
        THEN precinctStyle(NoData)
        ELSE LET totalVotes == Val(precinctResults).votes
                 winningVotes == Val(Get(Val(precinctResults).results,
                                         Val(winningCandidate)))
                 winPercentage == IF totalVotes > 0
                                  THEN Pct(winningVotes, totalVotes)
                                  ELSE PctZero
                 hue == Get(candidateBaseColors, Val(winningCandidate))
             IN  IF IsSome(hue)
                 THEN precinctStyle(shadeByMargin(Val(hue), winPercentage))
                 ELSE precinctStyle(NoData)

stylePrecinctByResults(feature) ==
    LET electDist == feature.properties.ElectDist
        precinctResults == getPrecinctResults(electDist)
        winningCandidate == getWinningCandidate(precinctResults)
    IN  IF ~IsSome(precinctResults) \/ ~IsSome(winningCandidate)
        THEN precinctStyle(NoData)
        ELSE LET totalVotes == Val(precinctResults).votes
                 winningVotes == Val(Get(Val(precinctResults).results,
                                         Val(winningCandidate)))
                 winPercentage == IF totalVotes > 0
                                  THEN Pct(winningVotes, totalVotes)
                                  ELSE PctZero
                 hue == Get(candidateBaseColors, Val(winningCandidate))
                 baseColor == IF IsSome(hue) THEN Val(hue) ELSE NoData
             IN  precinctStyle(shadeByMargin(baseColor, winPercentage))

\* turnoutColor with the colours of the two highest bins exchanged
turnoutColor_TopBinsSwapped(demTurnoutPercentage) ==
    IF Ge(demTurnoutPercentage, 600) THEN TurnoutRamp[5]
    ELSE IF Ge(demTurnoutPercentage, 500) THEN TurnoutRamp[6]
    ELSE IF Ge(demTurnoutPercentage, 400) THEN TurnoutRamp[4]
    ELSE IF Ge(demTurnoutPercentage, 300) THEN TurnoutRamp[3]
    ELSE IF Ge(demTurnoutPercentage, 200) THEN TurnoutRamp[2]
    ELSE TurnoutRamp[1]

turnoutColor(demTurnoutPercentage) ==
    IF Ge(demTurnoutPercentage, 600) THEN TurnoutRamp[6]
    ELSE IF Ge(demTurnoutPercentage, 500) THEN TurnoutRamp[5]
    ELSE IF Ge(demTurnoutPercentage, 400) THEN TurnoutRamp[4]
    ELSE IF Ge(demTurnoutPercentage, 300) THEN TurnoutRamp[3]
    ELSE IF Ge(demTurnoutPercentage, 200) THEN TurnoutRamp[2]
    ELSE TurnoutRamp[1]

\* stylePrecinctByTurnout without the guard on democrats === 0
stylePrecinctByTurnout_NoZeroGuard(feature) ==
    LET electDist == feature.properties.ElectDist
        precinctResults == getPrecinctResults(electDist)
        voterData == getVoterCounts(electDist)
    IN  IF ~IsSome(precinctResults) \/ ~IsSome(voterData)
        THEN precinctStyle(NoData)
        ELSE precinctStyle(turnoutColor(
                 Pct(Val(precinctResults).votes, Val(voterData).democrats)))

stylePrecinctByTurnout(feature) ==
    LET electDist == feature.properties.ElectDist
        precinctResults == getPrecinctResults(electDist)
        voterData == getVoterCounts(electDist)
    IN  IF ~IsSome(precinctResults) \/ ~IsSome(voterData)
           \/ Val(voterData).democrats = 0
        THEN precinctStyle(NoData)
        ELSE precinctStyle(turnoutColor(
                 Pct(Val(precinctResults).votes, Val(voterData).democrats)))

votersColor(demPercentage) ==
    IF Lt(demPercentage, 300) THEN VotersRamp[1]
    ELSE IF Lt(demPercentage, 400) THEN VotersRamp[2]
    ELSE IF Lt(demPercentage, 500) THEN VotersRamp[3]
    ELSE IF Lt(demPercentage, 600) THEN VotersRamp[4]
    ELSE IF Lt(demPercentage, 700) THEN VotersRamp[5]
    ELSE VotersRamp[6]

stylePrecinctByVoters(feature) ==
    LET electDist == feature.properties.ElectDist
        voterData == getVoterCounts(electDist)
    IN  IF ~IsSome(voterData)
        THEN precinctStyle(NoData)
        ELSE LET demPercentage ==
                     IF Val(voterData).total > 0
                     THEN Pct(Val(voterData).democrats, Val(voterData).total)
                     ELSE PctZero
             IN  precinctStyle(votersColor(demPercentage))

\* zohranColor with the edge 2.5 excluded from the bin it starts
zohranColor_ExclusiveEdge(zohranSupportPercentage) ==
    IF Ge(zohranSupportPercentage, 200) THEN ZohranRamp[8]
    ELSE IF Ge(zohranSupportPercentage, 150) THEN ZohranRamp[7]
    ELSE IF Ge(zohranSupportPercentage, 100) THEN ZohranRamp[6]
    ELSE IF Ge(zohranSupportPercentage, 75) THEN ZohranRamp[5]
    ELSE IF Ge(zohranSupportPercentage, 50) THEN ZohranRamp[4]
    ELSE IF ~Lt(zohranSupportPercentage, 25)
            /\ zohranSupportPercentage[1] * 10 # 25 * zohranSupportPercentage[2]
         THEN ZohranRamp[3]
    ELSE IF Positive(zohranSupportPercentage) THEN ZohranRamp[2]
    ELSE ZohranRamp[1]

zohranColor(zohranSupportPercentage) ==
    IF Ge(zohranSupportPercentage, 200) THEN ZohranRamp[8]
    ELSE IF Ge(zohranSupportPercentage, 150) THEN ZohranRamp[7]
    ELSE IF Ge(zohranSupportPercentage, 100) THEN ZohranRamp[6]
    ELSE IF Ge(zohranSupportPercentage, 75) THEN ZohranRamp[5]
    ELSE IF Ge(zohranSupportPercentage, 50) THEN ZohranRamp[4]
    ELSE IF Ge(zohranSupportPercentage, 25) THEN ZohranRamp[3]
    ELSE IF Positive(zohranSupportPercentage) THEN ZohranRamp[2]
    ELSE ZohranRamp[1]

\* precinctResults.results["mamdani-z"] || 0
zohranVotesOf(precinctResults) ==
    LET v == Get(precinctResults.results, Zohran)
    IN  IF IsSome(v) /\ Val(v) # 0 THEN Val(v) ELSE 0

\* stylePrecinctByZohranSupport with a zero count treated like a missing record
stylePrecinctByZohranSupport_ZeroIsNoData(feature) ==
    LET electDist == feature.properties.ElectDist
        precinctResults == getPrecinctResults(electDist)
        voterData == getVoterCounts(electDist)
    IN  IF ~IsSome(precinctResults) \/ ~IsSome(voterData)
           \/ Val(voterData).total = 0
           \/ zohranVotesOf(Val(precinctResults)) = 0
        THEN precinctStyle(NoData)
        ELSE precinctStyle(zohranColor(
                 Pct(zohranVotesOf(Val(precinctResults)), Val(voterData).total)))

stylePrecinctByZohranSupport(feature) ==
    LET electDist == feature.properties.ElectDist
        precinctResults == getPrecinctResults(electDist)
        voterData == getVoterCounts(electDist)
    IN  IF ~IsSome(precinctResults) \/ ~IsSome(voterData)
           \/ Val(voterData).total = 0
        THEN precinctStyle(NoData)
        ELSE precinctStyle(zohranColor(
                 Pct(zohranVotesOf(Val(precinctResults)), Val(voterData).total)))

(***************************************************************************)
(* Double-precision arithmetic of the Gen-Z computation                     *)
(*                                                                          *)
(* A double is <<A, e, D>>, the number (A + e * 2^-60) / D: A / D is the    *)
(* value exact arithmetic would give and e the rounding error accumulated   *)
(* so far. Every operation computes the exact result and rounds it to the   *)
(* nearest double, ties to even, as IEEE-754 does. The representation       *)
(* covers the values from 2^-8 up to 2^12.                                  *)
(***************************************************************************)
\* 2^n modulo m
RECURSIVE PowMod(_, _)
PowMod(n, m) == IF n = 0 THEN 1 % m ELSE (2 * PowMod(n - 1, m)) % m

RECURSIVE Pow2(_)
Pow2(n) == IF n = 0 THEN 1 ELSE 2 * Pow2(n - 1)

\* the value <<A, e, D>> is below 2^E
BelowPow2(x, E) ==
    LET l == IF E >= 0 THEN x[1] ELSE x[1] * Pow2(-E)
        r == IF E >= 0 THEN x[3] * Pow2(E) ELSE x[3]
    IN  l < r \/ (l = r /\ x[2] < 0)

\* the binary exponent of a positive value
Exponent(x) == CHOOSE E \in -8..12 : ~BelowPow2(x, E) /\ BelowPow2(x, E + 1)

\* (A * 2^60 + e) modulo (m * 2^k), where the doubles of exponent E are the
\* multiples of 2^k in units of 2^-60 (k = 8 + E)
Residue(x, E, m) ==
    LET k == 8 + E
    IN  ((((x[1] % m) * PowMod(52 - E, m)) % m) * Pow2(k) + x[2]) % (m * Pow2(k))

\* the nearest double, ties to the even mantissa
roundToDouble(x) ==
    IF x[1] = 0 /\ x[2] = 0 THEN x
    ELSE LET E == Exponent(x)
             S == x[3] * Pow2(8 + E)
             R == Residue(x, E, x[3])
             down == <<x[1], x[2] - R, x[3]>>
             up == <<x[1], x[2] + S - R, x[3]>>
         IN  IF 2 * R < S THEN down
             ELSE IF 2 * R > S THEN up
             ELSE IF Residue(x, E, 2 * x[3]) < S THEN down ELSE up

\* an integer count as a double with denominator 10
fromCount(count) == <<10 * count, 0, 10>>

\* count * 0.8: the double written 0.8 is (8 + 512 * 2^-60) / 10
times08(count) == roundToDouble(<<8 * count, 512 * count, 10>>)

\* count * 0.4: the double written 0.4 is (4 + 256 * 2^-60) / 10
times04(count) == roundToDouble(<<4 * count, 256 * count, 10>>)

\* x + y for two doubles of the same denominator
plus(x, y) == roundToDouble(<<x[1] + y[1], x[2] + y[2], x[3]>>)

\* x / n for an integer n
dividedBy(x, n) == roundToDouble(<<x[1], x[2], x[3] * n>>)

\* x * 100
times100(x) == roundToDouble(<<100 * x[1], 100 * x[2], x[3]>>)

\* x >= t and x === t for an integer t
DoubleGe(x, t) == x[1] > t * x[3] \/ (x[1] = t * x[3] /\ x[2] >= 0)

DoubleIs(x, t) == x[1] = t * x[3] /\ x[2] = 0

(***************************************************************************)
(* Census tracts                                                            *)
(***************************************************************************)
\* The contribution of one ageGroups entry to genZCount: count * 0.8, count,
\* count, count * 0.4, or nothing (None)
genZShare(entry) ==
    LET ageRange == entry[1]
        d == entry[2]
    IN  IF IsSome(d) /\ IsSome(Val(d).total) /\ Val(Val(d).total) > 0
        THEN LET count == Val(Val(d).total)
             IN  IF ageRange = "10 to 14 years" THEN Some(times08(count))
                 ELSE IF ageRange = "15 to 19 years" THEN Some(fromCount(count))
                 ELSE IF ageRange = "20 to 24 years" THEN Some(fromCount(count))
                 ELSE IF ageRange = "25 to 29 years" THEN Some(times04(count))
                 ELSE None
        ELSE None

\* the for-of loop over Object.entries(ageGroups): genZCount += ... in key order
RECURSIVE genZCount(_)
genZCount(entries) ==
    IF entries = <<>> THEN fromCount(0)
    ELSE LET before == genZCount(SubSeq(entries, 1, Len(entries) - 1))
             share == genZShare(entries[Len(entries)])
         IN  IF IsSome(share) THEN plus(before, Val(share)) ELSE before

\* null is None; a percentage is Some(double)
calculateGenZPercentage(ageGroups, totalPopulation) ==
    IF ~IsSome(ageGroups) \/ ~IsSome(totalPopulation) \/ Val(totalPopulation) = 0
    THEN None
    ELSE LET count == genZCount(Val(ageGroups))
         IN  IF DoubleIs(count, 0) THEN None
             ELSE Some(times100(dividedBy(count, Val(totalPopulation))))

genZColor(genZPercentage) ==
    IF DoubleGe(genZPercentage, 30) THEN GenZRamp[7]
    ELSE IF DoubleGe(genZPercentage, 25) THEN GenZRamp[6]
    ELSE IF DoubleGe(genZPercentage, 20) THEN GenZRamp[5]
    ELSE IF DoubleGe(genZPercentage, 15) THEN GenZRamp[4]
    ELSE IF DoubleGe(genZPercentage, 10) THEN GenZRamp[3]
    ELSE IF DoubleGe(genZPercentage, 5) THEN GenZRamp[2]
    ELSE GenZRamp[1]

Grey(n) == <<"#", n, n, n, n, n, n>>

\* styleCensusTract with the fill greyed when the view is not the active one
styleCensusTract_GreyWhenSecondary(feature, isPrimaryView) ==
    LET props == feature.properties
        totalPop == props.totalPopulation
        genZPercentage == calculateGenZPercentage(props.ageGroups, totalPop)
        defined == IsSome(totalPop) /\ Val(totalPop) # 0 /\ IsSome(genZPercentage)
    IN  [fillColor |-> IF defined /\ isPrimaryView
                       THEN genZColor(Val(genZPercentage)) ELSE NoData,
         weight |-> IF isPrimaryView THEN "1" ELSE "0.5",
         opacity |-> "1",
         color |-> IF ~isPrimaryView THEN Grey("8")
                   ELSE IF defined THEN Grey("3") ELSE Grey("6"),
         dashArray |-> IF defined /\ ~isPrimaryView THEN Some("2") ELSE None,
         fillOpacity |-> IF isPrimaryView THEN "0.7" ELSE "0.3"]

styleCensusTract(feature, isPrimaryView) ==
    LET props == feature.properties
        totalPop == props.totalPopulation
        noData == [fillColor |-> NoData,
                   weight |-> IF isPrimaryView THEN "1" ELSE "0.5",
                   opacity |-> "1",
                   color |-> IF isPrimaryView THEN Grey("6") ELSE Grey("8"),
                   dashArray |-> None,
                   fillOpacity |-> IF isPrimaryView THEN "0.7" ELSE "0.3"]
    IN  IF ~IsSome(totalPop) \/ Val(totalPop) = 0 THEN noData
        ELSE LET genZPercentage ==
                     calculateGenZPercentage(props.ageGroups, totalPop)
             IN  IF ~IsSome(genZPercentage) THEN noData
                 ELSE [fillColor |-> genZColor(Val(genZPercentage)),
                       weight |-> IF isPrimaryView THEN "1" ELSE "0.5",
                       opacity |-> "1",
                       color |-> IF isPrimaryView THEN Grey("3") ELSE Grey("8"),
                       dashArray |-> IF isPrimaryView THEN None ELSE Some("2"),
                       fillOpacity |-> IF isPrimaryView THEN "0.7" ELSE "0.3"]

(***************************************************************************)
(* Popup of a precinct                                                      *)
(***************************************************************************)
candidateNames ==
    << <<"cuomo-a", "Cuomo">>, <<"lander-b", "Lander">>,
       <<"mamdani-z", "Mamdani">>, <<"ramos-j", "Ramos">>,
       <<"stringer-s", "Stringer">>, <<"blake-m", "Blake">>,
       <<"myrie-z", "Myrie">>, <<"tilson-w", "Tilson">>,
       <<"adams-a", "Adams">> >>

\* candidateNames[key] || key
displayName(key) ==
    IF IsSome(Get(candidateNames, key)) THEN Val(Get(candidateNames, key)) ELSE key

\* ((n / d) * 100).toFixed(1). For d > 0 the nearest tenth, halves upwards (equal
\* to the double's rounding for every d below 80); n / 0 is Infinity for n > 0
\* and NaN for n = 0, which toFixed prints by name.
toFixed1(n, d) ==
    IF d = 0 THEN (IF n > 0 THEN "Infinity" ELSE "NaN")
    ELSE LET tenths == (2000 * n + d) \div (2 * d)
         IN  toString(tenths \div 10) \o "." \o Digit[(tenths % 10) + 1]

\* the <li> entries of the Results list
RECURSIVE resultItems(_, _)
resultItems(entries, totalVotes) ==
    IF entries = <<>> THEN <<>>
    ELSE << [candidate |-> displayName(Head(entries)[1]),
             votes |-> Head(entries)[2],
             votePercentage |-> IF totalVotes > 0
                                THEN toFixed1(Head(entries)[2], totalVotes)
                                ELSE "0.0"] >>
         \o resultItems(Tail(entries), totalVotes)

\* the "Election Results" block; an info line left "" is None
electionSection(precinctResults, voterData, mode) ==
    LET winningCandidate == getWinningCandidate(Some(precinctResults))
        totalVotes == precinctResults.votes
        turnoutInfo ==
            IF IsSome(voterData) /\ Val(voterData).total > 0
            THEN Some(toFixed1(totalVotes, Val(voterData).total))
            ELSE None
        demTurnoutInfo ==
            IF IsSome(voterData) /\ Val(voterData).democrats > 0
            THEN Some(toFixed1(totalVotes, Val(voterData).democrats))
            ELSE None
        zohranSupportInfo ==
            IF IsSome(voterData) /\ Val(voterData).total > 0
            THEN Some(toFixed1(zohranVotesOf(precinctResults), Val(voterData).total))
            ELSE None
    IN  [totalVotes |-> totalVotes,
         turnoutInfo |-> turnoutInfo,
         demTurnoutInfo |-> demTurnoutInfo,
         zohranSupportInfo |-> IF mode = "zohran-support"
                               THEN zohranSupportInfo ELSE None,
         winner |-> IF IsSome(winningCandidate)
                    THEN displayName(Val(winningCandidate)) ELSE "No data",
         results |-> resultItems(sortDesc(filterWriteIns(precinctResults.results)),
                                 totalVotes)]

\* the "Voter Registration" block
registrationSection(precinctResults, voterData) ==
    LET demPercentage == IF voterData.total > 0
                         THEN toFixed1(voterData.democrats, voterData.total)
                         ELSE "0"
        repPercentage == IF voterData.total > 0
                         THEN toFixed1(voterData.republicans, voterData.total)
                         ELSE "0"
        turnoutInfo ==
            IF IsSome(precinctResults) /\ Val(precinctResults).votes > 0
            THEN Some(toFixed1(Val(precinctResults).votes, voterData.total))
            ELSE None
        demTurnoutInfo ==
            IF IsSome(precinctResults) /\ Val(precinctResults).votes > 0
               /\ voterData.democrats > 0
            THEN Some(toFixed1(Val(precinctResults).votes, voterData.democrats))
            ELSE None
    IN  [county |-> voterData.county,
         total |-> voterData.total,
         turnoutInfo |-> turnoutInfo,
         demTurnoutInfo |-> demTurnoutInfo,
         democrats |-> voterData.democrats,
         demPercentage |-> demPercentage,
         republicans |-> voterData.republicans,
         repPercentage |-> repPercentage,
         conservatives |-> voterData.conservatives,
         working_families |-> voterData.working_families,
         other |-> voterData.other,
         blank |-> voterData.blank]

\* the content bound to the layer's popup, as a structure
onEachPrecinct(feature, mode) ==
    LET electDist == feature.properties.ElectDist
        precinctResults == getPrecinctResults(electDist)
        voterData == getVoterCounts(electDist)
    IN  [electDist |-> electDist,
         election |-> IF IsSome(precinctResults)
                      THEN Some(electionSection(Val(precinctResults), voterData, mode))
                      ELSE None,
         registration |-> IF IsSome(voterData)
                          THEN Some(registrationSection(precinctResults, Val(voterData)))
                          ELSE None]

(***************************************************************************)
(* The Map component                                                        *)
(***************************************************************************)
\* styleFunction with the turnout view sent to the results style
styleFunction_Misrouted(mode, feature) ==
    IF mode = "election-results" THEN stylePrecinctByResults(feature)
    ELSE IF mode = "turnout" THEN stylePrecinctByResults(feature)
    ELSE IF mode = "zohran-support" THEN stylePrecinctByZohranSupport(feature)
    ELSE stylePrecinctByVoters(feature)

\* styleFunction of the component before the targeted-support view was added:
\* that mode falls through to the registration style
styleFunction_ThreeModes(mode, feature) ==
    IF mode = "election-results" THEN stylePrecinctByResults(feature)
    ELSE IF mode = "turnout" THEN stylePrecinctByTurnout(feature)
    ELSE stylePrecinctByVoters(feature)

\* the style function chosen for the precinct layer
styleFunction(mode, feature) ==
    IF mode = "election-results" THEN stylePrecinctByResults(feature)
    ELSE IF mode = "turnout" THEN stylePrecinctByTurnout(feature)
    ELSE IF mode = "zohran-support" THEN stylePrecinctByZohranSupport(feature)
    ELSE stylePrecinctByVoters(feature)

onEachFeatureWrapper(feature) == onEachPrecinct(feature, viewMode)

\* displayedLayer with the precinct layer shown in every view mode
displayedLayer_AlwaysPrecincts == "election-districts"

\* the key of the GeoJSON layer that the render puts on the map
displayedLayer ==
    IF viewMode = "age-demographics" THEN "census-tracts" ELSE "election-districts"

censusTractStyleWrapper(feature) ==
    styleCensusTract(feature, viewMode = "age-demographics")

(***************************************************************************)
(* Calls on features and records that lack a property. Reading a property   *)
(* of undefined throws a TypeError, which no function of the component      *)
(* catches: the call's outcome is then the error.                           *)
(***************************************************************************)
TypeError == [threw |-> "TypeError"]

\* feature.properties.ElectDist is not undefined
hasElectDist(feature) == "ElectDist" \in DOMAIN feature.properties

\* electDist.toString() in the callback of find: evaluated for the first record
\* of the collection, it throws for an undefined electDist
lookupThrows(feature) == ~hasElectDist(feature) /\ precincts # <<>>

\* the record found for the feature has no results property
lacksResults(feature) ==
    /\ hasElectDist(feature)
    /\ IsSome(getPrecinctResults(feature.properties.ElectDist))
    /\ "results" \notin DOMAIN Val(getPrecinctResults(feature.properties.ElectDist))

\* Object.entries(precinctResults.results) in getWinningCandidate and
\* precinctResults.results["mamdani-z"] throw for a record without results
styleThrows(mode, feature) ==
    IF mode = "voter-registration" THEN FALSE
    ELSE \/ lookupThrows(feature)
         \/ /\ lacksResults(feature)
            /\ \/ mode = "election-results"
               \/ /\ mode = "zohran-support"
                  /\ IsSome(getVoterCounts(feature.properties.ElectDist))
                  /\ Val(getVoterCounts(feature.properties.ElectDist)).total # 0

\* the outcome of the style function of the precinct layer; an undefined
\* electDist that does not throw finds no record, which is styled as no data
styleOutcome(mode, feature) ==
    IF styleThrows(mode, feature) THEN TypeError
    ELSE IF ~hasElectDist(feature) THEN precinctStyle(NoData)
    ELSE styleFunction(mode, feature)

\* the outcome of onEachPrecinct; an undefined electDist that does not throw
\* gives a popup without sections
popupOutcome(feature) ==
    IF lookupThrows(feature) \/ lacksResults(feature) THEN TypeError
    ELSE IF ~hasElectDist(feature) THEN [election |-> None, registration |-> None]
    ELSE onEachFeatureWrapper(feature)

\* the outcome of getPrecinctResults
lookupOutcome(feature) ==
    IF lookupThrows(feature) THEN TypeError
    ELSE IF ~hasElectDist(feature) THEN [result |-> None]
    ELSE [result |-> getPrecinctResults(feature.properties.ElectDist)]

\* console.log of getPrecinctResults: one line when no record is found
lookupLog(feature) ==
    IF lookupThrows(feature) THEN <<>>
    ELSE IF ~hasElectDist(feature) THEN <<"No results found for precinct undefined">>
    ELSE IF ~IsSome(getPrecinctResults(feature.properties.ElectDist))
         THEN <<"No results found for precinct "
                  \o toString(feature.properties.ElectDist)>>
    ELSE <<>>

\* the lines written while a feature is styled: stylePrecinctByVoters makes no lookup
styleLog(mode, feature) ==
    IF mode = "voter-registration" THEN <<>> ELSE lookupLog(feature)

\* stylePrecinct with the fill depending on the random sample
stylePrecinct_Sampled(feature, sampled) ==
    LET precinctResults == getPrecinctResults(feature.properties.ElectDist)
        winningCandidate == getWinningCandidate(precinctResults)
        hue == IF IsSome(winningCandidate) /\ ~sampled
               THEN Get(candidateBaseColors, Val(winningCandidate)) ELSE None
    IN  precinctStyle(IF IsSome(hue) THEN Val(hue) ELSE NoData)

\* stylePrecinct of the first version of the component: the winner's base colour,
\* no shading; sampled is the outcome of Math.random() < 0.01, which only decides
\* whether the call is logged
stylePrecinct(feature, sampled) ==
    LET precinctResults == getPrecinctResults(feature.properties.ElectDist)
        winningCandidate == getWinningCandidate(precinctResults)
        hue == IF IsSome(winningCandidate)
               THEN Get(candidateBaseColors, Val(winningCandidate)) ELSE None
    IN  precinctStyle(IF IsSome(hue) THEN Val(hue) ELSE NoData)

stylePrecinctOutcome(feature, sampled) ==
    IF lookupThrows(feature) \/ lacksResults(feature) THEN TypeError
    ELSE IF ~hasElectDist(feature) THEN precinctStyle(NoData)
    ELSE stylePrecinct(feature, sampled)

stylePrecinctLog(feature, sampled) ==
    IF lookupThrows(feature) \/ lacksResults(feature) THEN <<>>
    ELSE lookupLog(feature)
         \o (IF ~sampled THEN <<>>
             ELSE IF hasElectDist(feature)
                  THEN <<"Styling precinct " \o toString(feature.properties.ElectDist)>>
                  ELSE <<"Styling precinct undefined">>)

\* resultsAfterSort with sort reordering the stored mapping itself
resultsAfterSort_InPlace(m) == sortDesc(filterWriteIns(m))

\* The candidate mapping of a record after Object.entries(m).filter(..).sort(..):
\* entries and filter each build a new array and sort reorders the array it is
\* called on, the filtered one, so the mapping keeps its entries and their order.
resultsAfterSort(m) == m

\* the election collection after the candidates of the feature's record were
\* ranked (getWinningCandidate, the Results list of the popup)
precinctsAfterRanking(feature) ==
    IF /\ hasElectDist(feature)
       /\ \E k \in 1..Len(precincts) :
              /\ precincts[k].item_id = toString(feature.properties.ElectDist)
              /\ "results" \in DOMAIN precincts[k]
    THEN LET id == toString(feature.properties.ElectDist)
             k == CHOOSE j \in 1..Len(precincts) :
                      /\ precincts[j].item_id = id
                      /\ \A h \in 1..(j - 1) : precincts[h].item_id # id
         IN  IF "results" \in DOMAIN precincts[k]
             THEN [precincts EXCEPT ![k].results = resultsAfterSort(@)]
             ELSE precincts
    ELSE precincts

\* only stylePrecinctByResults ranks the candidates
precinctsAfterStyle(mode, feature) ==
    IF mode = "election-results" THEN precinctsAfterRanking(feature) ELSE precincts

(***************************************************************************)
(* The diagnostics of a render of Map                                       *)
(***************************************************************************)
\* f.properties?.ElectDist, undefined for a feature without identifier
electDistOf(f) ==
    IF hasElectDist(f) THEN Some(f.properties.ElectDist) ELSE None

\* results.precincts.some((r) => r.item_id === f.properties?.ElectDist?.toString())
matchesSome(f) ==
    /\ hasElectDist(f)
    /\ \E k \in 1..Len(precincts) :
           precincts[k].item_id = toString(f.properties.ElectDist)

\* electionDistricts.features?.filter((f) => ..)
RECURSIVE filterMatched(_)
filterMatched(features) ==
    IF features = <<>> THEN <<>>
    ELSE IF matchesSome(Head(features))
         THEN <<Head(features)>> \o filterMatched(Tail(features))
         ELSE filterMatched(Tail(features))

\* Array.prototype.slice(0, 10)
slice10(seq) == SubSeq(seq, 1, Min(10, Len(seq)))

\* matchPercentage without the guard on the number of features
matchPercentage_Unguarded(matchedCount, totalElectionDistricts) ==
    toFixed1(matchedCount, totalElectionDistricts) \o "%"

matchPercentage(matchedCount, totalElectionDistricts) ==
    IF totalElectionDistricts > 0
    THEN toFixed1(matchedCount, totalElectionDistricts) \o "%"
    ELSE "0%"

\* the object logged as "Matching statistics:"
matchStatistics ==
    LET totalElectionDistricts == Len(electionDistricts)
        totalResults == Len(precincts)
        matchedCount == Len(filterMatched(electionDistricts))
    IN  [label |-> "Matching statistics:",
         totalElectionDistricts |-> totalElectionDistricts,
         totalResults |-> totalResults,
         matchedCount |-> matchedCount,
         matchPercentage |-> matchPercentage(matchedCount, totalElectionDistricts)]

\* the four console.log calls at the head of Map, run by every render
renderLog ==
    << [label |-> "Election Districts data:",
        featuresCount |-> Len(electionDistricts),
        firstFeature |-> IF electionDistricts = <<>> THEN None
                         ELSE Some(electionDistricts[1])],
       [label |-> "Results data:",
        totalPrecincts |-> Len(precincts),
        firstResult |-> IF precincts = <<>> THEN None ELSE Some(precincts[1]),
        sampleItemIds |-> [i \in 1..Len(slice10(precincts)) |-> precincts[i].item_id]],
       [label |-> "Sample ElectDist values from election districts:",
        sampleElectDists |-> [i \in 1..Len(slice10(electionDistricts)) |->
                                 electDistOf(electionDistricts[i])]],
       matchStatistics >>

(***************************************************************************)
(* The integration example: registration data attached to precinct features *)
(***************************************************************************)
PartyFields == {"democrats", "republicans", "conservatives", "working_families",
                "other", "blank", "total"}

\* { ...feature, properties: { ...feature.properties, voterCounts: voterData } }
withVoterData(feature) ==
    [feature EXCEPT !.properties =
        [voterCounts |-> getVoterCounts(feature.properties.ElectDist)] @@ @]

\* precincts.features.map(..): a new array of new objects, in the order of the input
addVoterDataToPrecincts ==
    [i \in 1..Len(precinctFeatures) |-> withVoterData(precinctFeatures[i])]

\* Array.prototype.filter((precinct) => precinct.properties.voterCounts?.county === county)
RECURSIVE filterCounty(_, _)
filterCounty(features, county) ==
    IF features = <<>> THEN <<>>
    ELSE IF /\ IsSome(Head(features).properties.voterCounts)
            /\ Val(Head(features).properties.voterCounts).county = county
         THEN <<Head(features)>> \o filterCounty(Tail(features), county)
         ELSE filterCounty(Tail(features), county)

getPrecinctsByCountyWithVoterData(county) ==
    filterCounty(addVoterDataToPrecincts, county)

\* featuresAfterMap with the callback writing voterCounts into the input features
featuresAfterMap_InPlace == addVoterDataToPrecincts

\* precincts.features after addVoterDataToPrecincts: map builds a new array and the
\* callback builds a new object and a new properties object with the spread
\* syntax, so the collection and its features are left as they were
featuresAfterMap == precinctFeatures

ZeroTotals == [f \in PartyFields |-> 0]

\* Array.prototype.reduce: totals[f] += voterData[f] for each precinct in turn
RECURSIVE reduceTotals(_, _)
reduceTotals(features, totals) ==
    IF features = <<>> THEN totals
    ELSE LET voterData == Head(features).properties.voterCounts
         IN  reduceTotals(Tail(features),
                          IF IsSome(voterData)
                          THEN [f \in PartyFields |-> totals[f] + Val(voterData)[f]]
                          ELSE totals)

getCountyVoterTotals(county) ==
    reduceTotals(getPrecinctsByCountyWithVoterData(county), ZeroTotals)

(***************************************************************************)
(* The loaded datasets                                                      *)
(***************************************************************************)
MaxCandidates == 2

MaxPrecincts == 3

CandidateKeys == {"lander-b", "mamdani-z", "prince-p", WriteIns}

CandidateVotes == {0, 3, 4, 5, 6, 8}

RECURSIVE SumVotes(_)
SumVotes(m) == IF m = <<>> THEN 0 ELSE Head(m)[2] + SumVotes(Tail(m))

\* candidate mappings: at most MaxCandidates entries, keys unique
Mappings ==
    {m \in UNION {[1..k -> CandidateKeys \X CandidateVotes] : k \in 0..MaxCandidates} :
        \A i, j \in 1..Len(m) : m[i][1] = m[j][1] => i = j}

ElectionRecord(id, t, m) == [item_id |-> id, votes |-> t, results |-> m]

VoterRecord(d, total, dem, rep) ==
    [district |-> d, county |-> "Kings", democrats |-> dem, republicans |-> rep,
     conservatives |-> 0, working_families |-> 0, other |-> 0,
     blank |-> total - dem - rep, total |-> total]

Feature(d) == [properties |-> [ElectDist |-> d]]

Geometry == <<Feature(1), Feature(2)>>

\* one precinct with every candidate mapping whose counts fit the vote total
ResultsData ==
    {<<ElectionRecord("1", t, m)>> : t \in {0, 10}, m \in Mappings} 

InitResults ==
    /\ precincts \in {p \in ResultsData : SumVotes(p[1].results) <= p[1].votes}
    /\ voterCounts = 1 :> VoterRecord(1, 40, 20, 4)
    /\ electionDistricts = Geometry
    /\ censusTracts = <<>>
    /\ precinctFeatures = <<>>

\* one precinct with the vote totals, targeted votes and registration counts
\* that meet every threshold of the turnout, registration and support tables
TurnoutVotes == {0, 4, 6, 8, 10, 12}

ZohranVotes == {0, 1, 2, 3, 4, 6, 8}

Registrations ==
    {VoterRecord(1, 0, 0, 0)}
    \cup {VoterRecord(1, 40, dem, rep) : dem \in {0, 12, 16, 20, 24, 28}, rep \in {0, 4}}

InitTurnout ==
    /\ precincts \in
          {<<ElectionRecord("1", t, <<<<"cuomo-a", t>>>>)>> : t \in TurnoutVotes}
          \cup {p \in {<<ElectionRecord("1", t, <<<<"cuomo-a", t - z>>, <<Zohran, z>>>>)>> :
                          t \in TurnoutVotes, z \in ZohranVotes} :
                   SumVotes(p[1].results) = p[1].votes /\ p[1].results[1][2] >= 0}
    /\ voterCounts \in {1 :> v : v \in Registrations}
    /\ electionDistricts = Geometry
    /\ censusTracts = <<>>
    /\ precinctFeatures = <<>>

\* several records, identifiers repeated, zero-padded or without a feature
JoinRecords ==
    {ElectionRecord("1", 10, << <<"cuomo-a", 6>>, <<Zohran, 4>> >>),
     ElectionRecord("1", 10, << <<Zohran, 8>>, <<"cuomo-a", 2>> >>),
     ElectionRecord("01", 10, << <<Zohran, 8>>, <<"cuomo-a", 2>> >>),
     ElectionRecord("2", 10, << <<"cuomo-a", 6>>, <<Zohran, 4>> >>)}

InitJoin ==
    /\ precincts \in UNION {[1..k -> JoinRecords] : k \in 0..MaxPrecincts}
    /\ voterCounts \in {<<>>, 2 :> VoterRecord(2, 40, 20, 4),
                        (1 :> VoterRecord(1, 20, 8, 2)) @@ (2 :> VoterRecord(2, 40, 20, 4))}
    /\ electionDistricts \in {Geometry, <<>>}
    /\ censusTracts = <<>>
    /\ precinctFeatures = <<>>

\* one census tract
AgeData(n) == Some([total |-> Some(n)])

AgeGroups ==
    {<< <<"10 to 14 years", AgeData(a)>>, <<"15 to 19 years", AgeData(b)>>,
        <<"25 to 29 years", AgeData(d)>>, <<"30 to 34 years", AgeData(50)>> >> :
        a \in {0, 5}, b \in {0, 4, 5, 10, 15, 20, 25, 30}, d \in {0, 5}}

\* the four Gen-Z brackets with the counts 1, 1, 2, 1 in every key order
BracketNames ==
    <<"10 to 14 years", "15 to 19 years", "20 to 24 years", "25 to 29 years">>

BracketCounts == <<1, 1, 2, 1>>

Orders(n) == {p \in [1..n -> 1..n] : \A i, j \in 1..n : p[i] = p[j] => i = j}

OrderedAgeGroups ==
    {[i \in 1..4 |-> <<BracketNames[p[i]], AgeData(BracketCounts[p[i]])>>] :
        p \in Orders(4)}

Tracts ==
    {[properties |-> [totalPopulation |-> pop, ageGroups |-> ag]] :
        pop \in {None, Some(0), Some(14), Some(100)},
        ag \in {None} \cup {Some(g) : g \in AgeGroups \cup OrderedAgeGroups}}

InitCensus ==
    /\ precincts = <<>>
    /\ voterCounts = <<>>
    /\ electionDistricts = Geometry
    /\ censusTracts \in {<<t>> : t \in Tracts}
    /\ precinctFeatures = <<>>

\* the precinct features of the integration example and registration records of
\* two counties; a district may lack a feature and a feature a record
PrecinctFeature(d) ==
    [type |-> "Feature", id |-> d, geometry |-> [type |-> "Polygon"],
     properties |-> [OBJECTID |-> d, ElectDist |-> d,
                     Shape__Area |-> 100 + d, Shape__Length |-> 40 + d]]

CountyRecord(d, county, n) ==
    [district |-> d, county |-> county, democrats |-> 5 * n, republicans |-> 2 * n,
     conservatives |-> n, working_families |-> n + 1, other |-> 1, blank |-> 3 * n,
     total |-> 12 * n + 2]

Counties == {"Kings County", "Queens County", "Bronx County"}

CountyRegistrations ==
    {<<>>,
     (1 :> CountyRecord(1, "Kings County", 1)) @@ (2 :> CountyRecord(2, "Kings County", 2)),
     (1 :> CountyRecord(1, "Kings County", 1)) @@ (2 :> CountyRecord(2, "Queens County", 2)),
     (1 :> CountyRecord(1, "Kings County", 1)) @@ (2 :> CountyRecord(2, "Kings County", 2))
         @@ (3 :> CountyRecord(3, "Queens County", 3))}

InitCounty ==
    /\ precincts = <<>>
    /\ voterCounts \in CountyRegistrations
    /\ electionDistricts = Geometry
    /\ censusTracts = <<>>
    /\ precinctFeatures \in
          UNION {[1..k -> {PrecinctFeature(d) : d \in 1..3}] : k \in 0..MaxPrecincts}

\* the memo table of a caller before any call
EmptyMemo == [table |-> <<>>, others |-> FALSE, hit |-> FALSE]

\* a feature without identifier and an election record without candidate mapping
InitMalformed ==
    /\ precincts \in {<<>>,
                      <<ElectionRecord("1", 10, << <<"cuomo-a", 6>>, <<Zohran, 4>> >>)>>,
                      <<[item_id |-> "1", votes |-> 10]>>}
    /\ voterCounts \in {<<>>, 1 :> VoterRecord(1, 40, 20, 4), 1 :> VoterRecord(1, 0, 0, 0)}
    /\ electionDistricts = <<Feature(1), [properties |-> [OBJECTID |-> 7]]>>
    /\ censusTracts = <<>>
    /\ precinctFeatures = <<>>

Init ==
    /\ InitResults \/ InitTurnout \/ InitJoin \/ InitCensus
    /\ viewMode = "election-results"
    /\ call = [op |-> "Map"]
    /\ ret = [void |-> TRUE]
    /\ console = renderLog
    /\ memo = EmptyMemo

(***************************************************************************)
(* Operations                                                               *)
(***************************************************************************)
\* onChange of a radio button: setViewMode(e.target.value)
SetViewMode(mode) ==
    /\ viewMode' = mode
    /\ call' = [op |-> "setViewMode", mode |-> mode]
    /\ ret' = [void |-> TRUE]
    /\ console' = renderLog
    /\ UNCHANGED data

\* the precinct layer styles one of its features
StylePrecinct(i) ==
    /\ displayedLayer = "election-districts"
    /\ call' = [op |-> "style", feature |-> electionDistricts[i]]
    /\ ret' = styleOutcome(viewMode, electionDistricts[i])
    /\ console' = styleLog(viewMode, electionDistricts[i])
    /\ precincts' = precinctsAfterStyle(viewMode, electionDistricts[i])
    /\ UNCHANGED <<voterCounts, electionDistricts, censusTracts, precinctFeatures, viewMode>>

\* the precinct layer of the first version of the component styles a feature
StylePrecinctFirstVersion(i, sampled) ==
    /\ call' = [op |-> "stylePrecinct", feature |-> electionDistricts[i]]
    /\ ret' = stylePrecinctOutcome(electionDistricts[i], sampled)
    /\ console' = stylePrecinctLog(electionDistricts[i], sampled)
    /\ precincts' = precinctsAfterRanking(electionDistricts[i])
    /\ UNCHANGED <<voterCounts, electionDistricts, censusTracts, precinctFeatures, viewMode>>

\* the precinct layer builds the popup of one of its features
PopupPrecinct(i) ==
    /\ displayedLayer = "election-districts"
    /\ call' = [op |-> "onEachFeature", feature |-> electionDistricts[i]]
    /\ ret' = popupOutcome(electionDistricts[i])
    /\ console' = lookupLog(electionDistricts[i])
    /\ precincts' = precinctsAfterRanking(electionDistricts[i])
    /\ UNCHANGED <<voterCounts, electionDistricts, censusTracts, precinctFeatures, viewMode>>

\* the census-tract layer styles one of its features
StyleTract(i) ==
    /\ displayedLayer = "census-tracts"
    /\ call' = [op |-> "styleTract", feature |-> censusTracts[i],
                isPrimaryView |-> viewMode = "age-demographics"]
    /\ ret' = censusTractStyleWrapper(censusTracts[i])
    /\ console' = <<>>
    /\ UNCHANGED <<data, viewMode>>

\* a lookup of the election record of one of the features
GetPrecinctResults(i) ==
    /\ call' = IF hasElectDist(electionDistricts[i])
               THEN [op |-> "getPrecinctResults",
                     electDist |-> electionDistricts[i].properties.ElectDist]
               ELSE [op |-> "getPrecinctResults"]
    /\ ret' = lookupOutcome(electionDistricts[i])
    /\ console' = lookupLog(electionDistricts[i])
    /\ UNCHANGED <<data, viewMode>>

\* styleCensusTract applied to one of the tracts with either value of the flag
StyleCensusTract(i, isPrimaryView) ==
    /\ call' = [op |-> "styleCensusTract", feature |-> censusTracts[i],
                isPrimaryView |-> isPrimaryView]
    /\ ret' = styleCensusTract(censusTracts[i], isPrimaryView)
    /\ console' = <<>>
    /\ UNCHANGED <<data, viewMode>>

\* the Gen-Z share of one of the tracts
CalculateGenZPercentage(i) ==
    /\ call' = [op |-> "calculateGenZPercentage", feature |-> censusTracts[i]]
    /\ ret' = [percentage |->
                  calculateGenZPercentage(censusTracts[i].properties.ageGroups,
                                          censusTracts[i].properties.totalPopulation)]
    /\ console' = <<>>
    /\ UNCHANGED <<data, viewMode>>

\* addVoterDataToPrecincts of the integration example
AddVoterDataToPrecincts ==
    /\ call' = [op |-> "addVoterDataToPrecincts"]
    /\ ret' = [features |-> addVoterDataToPrecincts]
    /\ console' = <<>>
    /\ precinctFeatures' = featuresAfterMap
    /\ UNCHANGED <<precincts, voterCounts, electionDistricts, censusTracts, viewMode>>

\* getCountyVoterTotals of the integration example
GetCountyVoterTotals(county) ==
    /\ call' = [op |-> "getCountyVoterTotals", county |-> county]
    /\ ret' = [totals |-> getCountyVoterTotals(county)]
    /\ console' = <<>>
    /\ precinctFeatures' = featuresAfterMap
    /\ UNCHANGED <<precincts, voterCounts, electionDistricts, censusTracts, viewMode>>

\* one operation of the component
Step ==
    \/ \E mode \in ViewMode : SetViewMode(mode)
    \/ \E i \in 1..Len(electionDistricts) : GetPrecinctResults(i)
    \/ \E i \in 1..Len(electionDistricts) : StylePrecinct(i)
    \/ \E i \in 1..Len(electionDistricts), sampled \in BOOLEAN :
           StylePrecinctFirstVersion(i, sampled)
    \/ \E i \in 1..Len(electionDistricts) : PopupPrecinct(i)
    \/ \E i \in 1..Len(censusTracts) : StyleTract(i)
    \/ \E i \in 1..Len(censusTracts) : CalculateGenZPercentage(i)

Next == Step /\ UNCHANGED memo

Spec == Init /\ [][Next]_vars

\* A caller that memoizes style and summary by (operation, identifier, view
\* mode): table keeps the first result of at most MaxMemo keys, hit tells that
\* the last call asked for a key of the table, others that a call on a feature
\* of no key of the table was made since the table was started.
MaxMemo == 1

MemoOps == {"style", "stylePrecinct", "onEachFeature"}

MemoKey(c, mode) == <<c.op, c.feature.properties.ElectDist, mode>>

Memoized(c) == c.op \in MemoOps /\ hasElectDist(c.feature)

Remember ==
    memo' =
        IF ~Memoized(call') THEN [memo EXCEPT !.hit = FALSE]
        ELSE IF MemoKey(call', viewMode') \in DOMAIN memo.table
             THEN [memo EXCEPT !.hit = TRUE]
        ELSE [table |-> IF Cardinality(DOMAIN memo.table) < MaxMemo
                        THEN memo.table @@ (MemoKey(call', viewMode') :> ret')
                        ELSE memo.table,
              others |-> \/ memo.others
                         \/ /\ DOMAIN memo.table # {}
                            /\ \A k \in DOMAIN memo.table :
                                  k[2] # MemoKey(call', viewMode')[2],
              hit |-> FALSE]

NextMemo == Step /\ Remember

\* two precincts with both records, or one of them with neither, and one census
\* tract
MemoData ==
    { << <<ElectionRecord("1", 10, << <<"cuomo-a", 6>>, <<Zohran, 4>> >>),
           ElectionRecord("2", 10, << <<Zohran, 8>>, <<"cuomo-a", 2>> >>)>>,
         (1 :> VoterRecord(1, 40, 28, 4)) @@ (2 :> VoterRecord(2, 40, 20, 4)) >>,
      << <<ElectionRecord("2", 10, << <<"prince-p", 5>>, <<"cuomo-a", 5>> >>)>>,
         2 :> VoterRecord(2, 40, 20, 4) >> }

InitMemo ==
    /\ \E d \in MemoData : precincts = d[1] /\ voterCounts = d[2]
    /\ electionDistricts = Geometry
    /\ censusTracts =
          <<[properties |->
                [totalPopulation |-> Some(100),
                 ageGroups |-> Some(<< <<"15 to 19 years", AgeData(20)>> >>)]]>>
    /\ precinctFeatures = <<>>
    /\ viewMode = "election-results"
    /\ call = [op |-> "Map"]
    /\ ret = [void |-> TRUE]
    /\ console = renderLog
    /\ memo = EmptyMemo

SpecMemo == InitMemo /\ [][NextMemo]_vars

\* styleCensusTract as a function of the tract and the flag, whatever the caller
InitTractStyle ==
    /\ InitCensus
    /\ viewMode = "election-results"
    /\ call = [op |-> "import"]
    /\ ret = [void |-> TRUE]
    /\ console = <<>>
    /\ memo = EmptyMemo

NextTractStyle ==
    /\ \E i \in 1..Len(censusTracts), isPrimaryView \in BOOLEAN :
           StyleCensusTract(i, isPrimaryView)
    /\ UNCHANGED memo

SpecTractStyle == InitTractStyle /\ [][NextTractStyle]_vars

\* the integration example, a module of its own that the component does not call
InitIntegration ==
    /\ InitCounty
    /\ viewMode = "election-results"
    /\ call = [op |-> "import"]
    /\ ret = [void |-> TRUE]
    /\ console = <<>>
    /\ memo = EmptyMemo

NextIntegration ==
    /\ \/ AddVoterDataToPrecincts
       \/ \E county \in Counties : GetCountyVoterTotals(county)
    /\ UNCHANGED memo

SpecIntegration == InitIntegration /\ [][NextIntegration]_vars

\* the component on any input, the malformed ones included
InitAnyInput ==
    \/ Init
    \/ /\ InitMalformed
       /\ viewMode = "election-results"
       /\ call = [op |-> "Map"]
       /\ ret = [void |-> TRUE]
       /\ console = renderLog
       /\ memo = EmptyMemo

SpecAnyInput == InitAnyInput /\ [][Next]_vars

(***************************************************************************)
(* What the claims speak about, read off the state                          *)
(***************************************************************************)
Range(seq) == {seq[i] : i \in 1..Len(seq)}

PrecinctModes == {"election-results", "turnout", "voter-registration", "zohran-support"}

Styled == call.op = "style"

Summarised == call.op = "onEachFeature"

FeatureId == call.feature.properties.ElectDist

\* the positions of the election records stored under the feature's identifier
Matches == {k \in 1..Len(precincts) : precincts[k].item_id = toString(FeatureId)}

ElectionPresent == Matches # {}

TheElection == precincts[CHOOSE k \in Matches : \A j \in Matches : k <= j]

RegistrationPresent == FeatureId \in DOMAIN voterCounts

TheRegistration == voterCounts[FeatureId]

\* the positions of the candidates proper in a candidate mapping
Candidates(m) == {i \in 1..Len(m) : m[i][1] # WriteIns}

\* position i holds the maximal count and is the first to hold it
FirstMaximal(m, i) ==
    /\ i \in Candidates(m)
    /\ \A j \in Candidates(m) : m[j][2] <= m[i][2]
    /\ \A j \in Candidates(m) : j < i => m[j][2] < m[i][2]

HasWinner == ElectionPresent /\ Candidates(TheElection.results) # {}

WinnerEntry ==
    TheElection.results[CHOOSE i \in Candidates(TheElection.results) :
                            FirstMaximal(TheElection.results, i)]

BaseHues == {candidateBaseColors[i][2] : i \in 1..Len(candidateBaseColors)}

WinnerHue ==
    IF \E i \in 1..Len(candidateBaseColors) : candidateBaseColors[i][1] = WinnerEntry[1]
    THEN candidateBaseColors[CHOOSE i \in 1..Len(candidateBaseColors) :
                                 candidateBaseColors[i][1] = WinnerEntry[1]][2]
    ELSE NoData

Tiers(hue) ==
    {darkenColor(hue, 3), darkenColor(hue, 2), hue,
     lightenColor(hue, 2), lightenColor(hue, 4)}

Buckets(mode) ==
    {NoData} \cup
    (IF mode = "election-results" THEN UNION {Tiers(hue) : hue \in BaseHues}
     ELSE IF mode = "turnout" THEN Range(TurnoutRamp)
     ELSE IF mode = "voter-registration" THEN Range(VotersRamp)
     ELSE IF mode = "zohran-support" THEN Range(ZohranRamp)
     ELSE Range(GenZRamp))

(***************************************************************************)
(* C1. Classification is total: in every view mode the fill colour of a     *)
(* styled feature is a member of that view's fixed bucket set (the view's   *)
(* ramp and the no-data colour; for results the 9 base hues in their 5      *)
(* tiers and the no-data colour).                                           *)
(***************************************************************************)
C1_FillInBucketSet ==
    /\ Styled => ret.fillColor \in Buckets(viewMode)
    /\ call.op = "styleTract" => ret.fillColor \in Buckets("age-demographics")

(***************************************************************************)
(* C2. getWinningCandidate returns no winner exactly when the candidate     *)
(* mapping without the write-in key is empty; otherwise it returns the key  *)
(* holding the maximal count, the first in mapping order among ties.  It    *)
(* holds of every record of the dataset, and the winner the popup names is  *)
(* that key's display name.                                                 *)
(***************************************************************************)
C2_WinnerIsFirstMaximal ==
    /\ \A k \in 1..Len(precincts) :
          LET m == precincts[k].results
              w == getWinningCandidate(Some(precincts[k]))
          IN  /\ (w = None) <=> (Candidates(m) = {})
              /\ w # None => \E i \in Candidates(m) :
                                 FirstMaximal(m, i) /\ Val(w) = m[i][1]
    /\ Summarised /\ ElectionPresent =>
          Val(ret.election).winner =
              IF HasWinner THEN displayName(WinnerEntry[1]) ELSE "No data"

\* a popup built for a record in which two candidates tie for the maximum
C2_Witness ==
    /\ Summarised /\ HasWinner
    /\ \E i, j \in Candidates(TheElection.results) :
          /\ i < j
          /\ FirstMaximal(TheElection.results, i)
          /\ TheElection.results[j][2] = TheElection.results[i][2]
          /\ Val(ret.election).winner = displayName(TheElection.results[i][1])

(***************************************************************************)
(* C3. getPrecinctResults returns, for an identifier that occurs in the     *)
(* election dataset, a record of the dataset whose item_id is the string    *)
(* form of the identifier, and undefined for an identifier without record.  *)
(***************************************************************************)
C3_LookupReturnsOwnRecord ==
    call.op = "getPrecinctResults" =>
        LET id == toString(call.electDist)
        IN  IF \E k \in 1..Len(precincts) : precincts[k].item_id = id
            THEN /\ IsSome(ret.result)
                 /\ Val(ret.result) \in Range(precincts)
                 /\ Val(ret.result).item_id = id
            ELSE ret.result = None

\* a lookup that found its record among records stored under other identifiers
C3_Witness ==
    /\ call.op = "getPrecinctResults"
    /\ IsSome(ret.result)
    /\ Val(ret.result).item_id = toString(call.electDist)
    /\ \E k \in 1..Len(precincts) : precincts[k].item_id # toString(call.electDist)

(***************************************************************************)
(* C4. In every precinct view mode a feature for which the election record  *)
(* or the registration record is missing gets the no-data fill.             *)
(***************************************************************************)
C4_MissingEitherRecordIsNoData ==
    Styled /\ viewMode \in PrecinctModes /\ (~ElectionPresent \/ ~RegistrationPresent)
        => ret.fillColor = NoData

\* the records a view's style function reads
ReadsElection(mode) == mode \in {"election-results", "turnout", "zohran-support"}

ReadsRegistration(mode) == mode \in {"turnout", "voter-registration", "zohran-support"}

(***************************************************************************)
(* C4, as amended. In every precinct view mode a feature lacking a record   *)
(* that the view reads gets the no-data fill: the election record in the    *)
(* results view, the registration record in the registration view, either   *)
(* of them in the turnout and targeted-support views.                       *)
(***************************************************************************)
C4_MissingReadRecordIsNoData ==
    Styled /\ viewMode \in PrecinctModes
           /\ \/ ReadsElection(viewMode) /\ ~ElectionPresent
              \/ ReadsRegistration(viewMode) /\ ~RegistrationPresent
        => ret.fillColor = NoData

\* the turnout view greys a feature that has votes but no registration record
C4_Witness ==
    /\ Styled /\ viewMode = "turnout"
    /\ ElectionPresent /\ ~RegistrationPresent
    /\ ret.fillColor = NoData

\* the texts a popup prints for a number
Numerals ==
    {"0"} \cup {toString(i) \o "." \o Digit[j] : i \in 0..300, j \in 1..10}

(***************************************************************************)
(* C5. For a registration record with total = 0 the party registration      *)
(* share is undefined, never a number: the registration view gives the      *)
(* feature the no-data fill and the popup reports no numeric share.         *)
(***************************************************************************)
C5_ZeroTotalShareUndefined ==
    /\ Styled /\ viewMode = "voter-registration"
          /\ RegistrationPresent /\ TheRegistration.total = 0
          => ret.fillColor = NoData
    /\ Summarised /\ RegistrationPresent /\ TheRegistration.total = 0
          => /\ Val(ret.registration).demPercentage \notin Numerals
             /\ Val(ret.registration).repPercentage \notin Numerals

(***************************************************************************)
(* C6. For an election record with a non-empty candidate mapping and total  *)
(* votes = 0 the win margin is undefined: the results view gives the        *)
(* feature the no-data fill, and the candidate vote shares of the popup are *)
(* not numbers.                                                             *)
(***************************************************************************)
C6_ZeroVotesMarginUndefined ==
    /\ Styled /\ viewMode = "election-results" /\ HasWinner /\ TheElection.votes = 0
          => ret.fillColor = NoData
    /\ Summarised /\ HasWinner /\ TheElection.votes = 0
          => \A e \in Range(Val(ret.election).results) : e.votePercentage \notin Numerals

(***************************************************************************)
(* C7. Overall turnout is reported only when total registered > 0, in both  *)
(* the election-results section and the voter-registration section of the   *)
(* popup.                                                                   *)
(***************************************************************************)
C7_TurnoutOnlyForPositiveTotal ==
    Summarised =>
        /\ ElectionPresent /\ IsSome(Val(ret.election).turnoutInfo)
              => RegistrationPresent /\ TheRegistration.total > 0
        /\ RegistrationPresent /\ IsSome(Val(ret.registration).turnoutInfo)
              => TheRegistration.total > 0

\* the win margin of the feature's record, defined when votes were cast
MarginDefined == HasWinner /\ TheElection.votes > 0

\* margin >= t, and margin < t, for a threshold t in percent
MarginGe(t) == 100 * WinnerEntry[2] >= t * TheElection.votes

MarginLt(t) == 100 * WinnerEntry[2] < t * TheElection.votes

ResultsStyled == Styled /\ viewMode = "election-results" /\ MarginDefined

(***************************************************************************)
(* C8. The five intensity tiers of the results view are lower-inclusive:    *)
(* every defined margin falls in exactly one of <40, [40,50), [50,60),      *)
(* [60,80), >=80 and gets that tier's shade of the winner's hue; a margin   *)
(* of exactly 50% keeps the hue unchanged.                                  *)
(***************************************************************************)
C8_TiersLowerInclusive ==
    ResultsStyled =>
        /\ MarginLt(40) => ret.fillColor = lightenColor(WinnerHue, 4)
        /\ MarginGe(40) /\ MarginLt(50) => ret.fillColor = lightenColor(WinnerHue, 2)
        /\ MarginGe(50) /\ MarginLt(60) => ret.fillColor = WinnerHue
        /\ MarginGe(60) /\ MarginLt(80) => ret.fillColor = darkenColor(WinnerHue, 2)
        /\ MarginGe(80) => ret.fillColor = darkenColor(WinnerHue, 3)

\* a win by exactly half of the votes keeps the base hue
C8_Witness ==
    /\ ResultsStyled
    /\ 2 * WinnerEntry[2] = TheElection.votes
    /\ WinnerHue # NoData
    /\ ret.fillColor = WinnerHue

\* the three channels of a colour "#rrggbb"
Channels(color) ==
    <<parseInt16(SubSeq(color, 2, 3)), parseInt16(SubSeq(color, 4, 5)),
      parseInt16(SubSeq(color, 6, 7))>>

\* "#" followed by three channels of exactly two hex digits each
WellFormedColor(color) ==
    /\ Len(color) = 7
    /\ color[1] = "#"
    /\ \A i \in 2..7 : color[i] \in Range(HexDigit)

(***************************************************************************)
(* C9. In the results view a margin below 50% lightens the winner's hue     *)
(* (no channel decreases), a margin of 60% or more darkens it (no channel   *)
(* increases) and a margin in [50,60) leaves it unchanged; every channel of *)
(* the fill is in 0..255 and is written with exactly two hex digits.        *)
(***************************************************************************)
C9_ShadeDirectionAndRange ==
    ResultsStyled =>
        /\ WellFormedColor(ret.fillColor)
        /\ \A c \in 1..3 : Channels(ret.fillColor)[c] \in 0..255
        /\ MarginLt(50) =>
              \A c \in 1..3 : Channels(ret.fillColor)[c] >= Channels(WinnerHue)[c]
        /\ MarginGe(60) =>
              \A c \in 1..3 : Channels(ret.fillColor)[c] <= Channels(WinnerHue)[c]
        /\ MarginGe(50) /\ MarginLt(60) => ret.fillColor = WinnerHue

\* a strong win darkened every channel, one of them to a single-digit value
C9_Witness ==
    /\ ResultsStyled
    /\ MarginGe(80)
    /\ \A c \in 1..3 : Channels(ret.fillColor)[c] < Channels(WinnerHue)[c]
    /\ \E c \in 1..3 : Channels(ret.fillColor)[c] < 16

\* the metric a threshold view classifies, as numerator and denominator, for a
\* styled feature whose records make it defined
MetricDefined ==
    /\ Styled
    /\ \/ viewMode = "turnout" /\ ElectionPresent /\ RegistrationPresent
             /\ TheRegistration.democrats > 0
       \/ viewMode = "voter-registration" /\ RegistrationPresent
             /\ TheRegistration.total > 0
       \/ viewMode = "zohran-support" /\ ElectionPresent /\ RegistrationPresent
             /\ TheRegistration.total > 0

TargetedVotes ==
    IF \E i \in 1..Len(TheElection.results) : TheElection.results[i][1] = Zohran
    THEN TheElection.results[CHOOSE i \in 1..Len(TheElection.results) :
                                 TheElection.results[i][1] = Zohran][2]
    ELSE 0

MetricNum ==
    IF viewMode = "turnout" THEN TheElection.votes
    ELSE IF viewMode = "voter-registration" THEN TheRegistration.democrats
    ELSE TargetedVotes

MetricDen ==
    IF viewMode = "turnout" THEN TheRegistration.democrats ELSE TheRegistration.total

\* the threshold tables: the bins above the lowest one, each with the threshold
\* it starts at (in tenths of a percent) and its colour, in ascending order
Table(mode) ==
    IF mode = "turnout"
    THEN << <<200, TurnoutRamp[2]>>, <<300, TurnoutRamp[3]>>, <<400, TurnoutRamp[4]>>,
            <<500, TurnoutRamp[5]>>, <<600, TurnoutRamp[6]>> >>
    ELSE IF mode = "voter-registration"
    THEN << <<300, VotersRamp[2]>>, <<400, VotersRamp[3]>>, <<500, VotersRamp[4]>>,
            <<600, VotersRamp[5]>>, <<700, VotersRamp[6]>> >>
    ELSE << <<0, ZohranRamp[2]>>, <<25, ZohranRamp[3]>>, <<50, ZohranRamp[4]>>,
            <<75, ZohranRamp[5]>>, <<100, ZohranRamp[6]>>, <<150, ZohranRamp[7]>>,
            <<200, ZohranRamp[8]>> >>

LowestBin(mode) ==
    IF mode = "turnout" THEN TurnoutRamp[1]
    ELSE IF mode = "voter-registration" THEN VotersRamp[1]
    ELSE ZohranRamp[1]

\* the metric compared with a threshold t10 (tenths of a percent)
MetricAt(t10) == 1000 * MetricNum = t10 * MetricDen

MetricAtLeast(t10) == 1000 * MetricNum >= t10 * MetricDen

MetricAbove(t10) == 1000 * MetricNum > t10 * MetricDen

MetricBelow(t10) == 1000 * MetricNum < t10 * MetricDen

\* the metric is below the threshold that starts bin i + 1 (the top bin has none)
BelowNext(mode, i) ==
    i = Len(Table(mode)) \/ MetricBelow(Table(mode)[i + 1][1])

(***************************************************************************)
(* C10. In the turnout, registration and targeted-support views a           *)
(* percentage exactly equal to a threshold falls in the bin that starts at  *)
(* that threshold, for every threshold of each of the three tables.         *)
(***************************************************************************)
C10_EveryThresholdInclusive ==
    MetricDefined =>
        \A i \in 1..Len(Table(viewMode)) :
            MetricAt(Table(viewMode)[i][1]) => ret.fillColor = Table(viewMode)[i][2]

\* the one threshold that is exclusive: 0 in the targeted-support table
ExclusiveThreshold(mode, i) == mode = "zohran-support" /\ i = 1

(***************************************************************************)
(* C10, as amended. Every bin of the three tables is closed on its lower    *)
(* bound and open on its upper bound, the top bin unbounded above, except   *)
(* at the threshold 0 of the targeted-support table, which is exclusive:    *)
(* exactly 0% falls in the lowest ("no support") bin and the bin above it   *)
(* is the open interval (0, 2.5).                                           *)
(***************************************************************************)
C10_BinsLowerClosedExceptZero ==
    MetricDefined =>
        /\ \A i \in 1..Len(Table(viewMode)) :
              (/\ BelowNext(viewMode, i)
               /\ (IF ExclusiveThreshold(viewMode, i)
                   THEN MetricAbove(Table(viewMode)[i][1])
                   ELSE MetricAtLeast(Table(viewMode)[i][1])))
              => ret.fillColor = Table(viewMode)[i][2]
        /\ (IF ExclusiveThreshold(viewMode, 1)
            THEN ~MetricAbove(Table(viewMode)[1][1])
            ELSE MetricBelow(Table(viewMode)[1][1]))
           => ret.fillColor = LowestBin(viewMode)

\* targeted support of exactly 2.5% of the registered voters, in the bin [2.5, 5)
C10_Witness ==
    /\ MetricDefined /\ viewMode = "zohran-support"
    /\ MetricAt(25)
    /\ ret.fillColor = ZohranRamp[3]

\* the targeted candidate's key is in the candidate mapping of the feature's record
TargetedKeyPresent ==
    \E i \in 1..Len(TheElection.results) : TheElection.results[i][1] = Zohran

NoSupport == ZohranRamp[1]

(***************************************************************************)
(* C11. In the targeted-support view, when both records are present and     *)
(* the registered total is positive, a targeted count that is 0 or absent   *)
(* from the candidate mapping gives 0% (printed "0.0" in the summary) and   *)
(* the "no support" fill #c51b7d, which is not the no-data fill #cccccc;    *)
(* the no-data fill is used when either record is absent or the registered  *)
(* total is 0.                                                              *)
(***************************************************************************)
C11_ZeroSupportIsNotNoData ==
    /\ NoSupport = Hex("c", "5", "1", "b", "7", "d") /\ NoSupport # NoData
    /\ (Styled /\ viewMode = "zohran-support") =>
          IF ElectionPresent /\ RegistrationPresent /\ TheRegistration.total > 0
          THEN (TargetedVotes = 0 => ret.fillColor = NoSupport)
          ELSE ret.fillColor = NoData
    /\ (/\ Summarised /\ viewMode = "zohran-support"
        /\ ElectionPresent /\ RegistrationPresent /\ TheRegistration.total > 0
        /\ TargetedVotes = 0)
       => Val(ret.election).zohranSupportInfo = Some("0.0")

\* a record whose candidate mapping lacks the targeted candidate, styled pink
C11_Witness ==
    /\ Styled /\ viewMode = "zohran-support"
    /\ ElectionPresent /\ RegistrationPresent /\ TheRegistration.total > 0
    /\ ~TargetedKeyPresent
    /\ ret.fillColor = NoSupport

TractStyled == call.op = "styleTract"

TractPopulation ==
    IF IsSome(call.feature.properties.totalPopulation)
    THEN Val(call.feature.properties.totalPopulation) ELSE 0

TractHasBrackets == IsSome(call.feature.properties.ageGroups)

TractBrackets == Val(call.feature.properties.ageGroups)

\* the residents counted in the bracket of a given name (0 when it is absent)
RECURSIVE BracketCount(_, _)
BracketCount(g, name) ==
    IF g = <<>> THEN 0
    ELSE (IF Head(g)[1] = name /\ IsSome(Head(g)[2]) /\ IsSome(Val(Head(g)[2]).total)
          THEN Val(Val(Head(g)[2]).total) ELSE 0)
         + BracketCount(Tail(g), name)

\* ten times the Gen-Z count of the weighting rule 0.8, 1, 1, 0.4
GenZRule10(g) ==
    8 * BracketCount(g, "10 to 14 years") + 10 * BracketCount(g, "15 to 19 years")
    + 10 * BracketCount(g, "20 to 24 years") + 4 * BracketCount(g, "25 to 29 years")

(***************************************************************************)
(* C12. The Gen-Z share is defined whenever the total population is         *)
(* positive: a tract with population > 0 and age brackets is classified     *)
(* into the Gen-Z ramp, and one with no Gen-Z residents has the valid value *)
(* 0% and the lowest bin (<5%), not the no-data fill; the no-data fill is   *)
(* used only when the population is 0 or missing.                           *)
(***************************************************************************)
C12_ZeroGenZIsLowestBin ==
    TractStyled =>
        IF TractPopulation = 0 THEN ret.fillColor = NoData
        ELSE TractHasBrackets =>
                /\ ret.fillColor \in Range(GenZRamp)
                /\ GenZRule10(TractBrackets) = 0 => ret.fillColor = GenZRamp[1]

\* the same brackets in every key order
Reorderings(g) == {[i \in 1..Len(g) |-> g[p[i]]] : p \in Orders(Len(g))}

GenZComputed ==
    /\ call.op = "calculateGenZPercentage"
    /\ TractPopulation > 0 /\ TractHasBrackets

(***************************************************************************)
(* C13. calculateGenZPercentage computes 0.8 x count("10 to 14 years") +    *)
(* count("15 to 19 years") + count("20 to 24 years") + 0.4 x count("25 to   *)
(* 29 years"), divided by the total population, times 100: no other bracket *)
(* contributes, and the result is the same for every order in which the     *)
(* brackets appear in the mapping.                                          *)
(***************************************************************************)
C13_GenZRuleOrderIndependent ==
    GenZComputed =>
        /\ IsSome(ret.percentage) =>
               Val(ret.percentage)[1] * 10 * TractPopulation
                   = 100 * GenZRule10(TractBrackets) * Val(ret.percentage)[3]
        /\ \A g \in Reorderings(TractBrackets) :
               calculateGenZPercentage(Some(g), Some(TractPopulation)) = ret.percentage

\* the candidate mapping of the feature's record without the write-in entry, in
\* mapping order
RankedInput ==
    [i \in 1..Cardinality(Candidates(TheElection.results)) |->
        TheElection.results[CHOOSE k \in Candidates(TheElection.results) :
            Cardinality({j \in Candidates(TheElection.results) : j < k}) = i - 1]]

TheRanking == Val(ret.election).results

\* the string shows n / d x 100 to one decimal: a numeral T.t whose value is
\* within 0.05 of the quotient
ShowsPercent(str, n, d) ==
    \E T \in 0..10000 :
        /\ str = toString(T \div 10) \o "." \o Digit[(T % 10) + 1]
        /\ 2 * (T * d - 1000 * n) <= d
        /\ 2 * (1000 * n - T * d) <= d

(***************************************************************************)
(* C14. The candidate breakdown of a precinct's summary is a permutation of *)
(* exactly the non-write-in entries of the candidate mapping, ordered by    *)
(* votes descending, entries of equal votes in their mapping order; each    *)
(* entry's vote share is its votes / total votes x 100 (where the total is  *)
(* positive, so that the quotient exists).                                  *)
(***************************************************************************)
C14_RankingIsStableSortedPermutation ==
    (Summarised /\ ElectionPresent) =>
        /\ Len(TheRanking) = Len(RankedInput)
        /\ \E p \in Orders(Len(RankedInput)) :
              /\ \A i \in 1..Len(TheRanking) :
                    /\ TheRanking[i].candidate = displayName(RankedInput[p[i]][1])
                    /\ TheRanking[i].votes = RankedInput[p[i]][2]
              /\ \A i, j \in 1..Len(TheRanking) :
                    i < j => \/ RankedInput[p[i]][2] > RankedInput[p[j]][2]
                             \/ /\ RankedInput[p[i]][2] = RankedInput[p[j]][2]
                                /\ p[i] < p[j]
        /\ TheElection.votes > 0 =>
              \A i \in 1..Len(TheRanking) :
                  ShowsPercent(TheRanking[i].votePercentage,
                               TheRanking[i].votes, TheElection.votes)

\* a second entry with more votes than the first is ranked first
C14_Witness ==
    /\ Summarised /\ ElectionPresent /\ TheElection.votes > 0
    /\ Len(TheElection.results) = 2 /\ Len(TheRanking) = 2
    /\ TheElection.results[1][2] < TheElection.results[2][2]
    /\ TheRanking[1].votes = TheElection.results[2][2]
    /\ TheRanking[1].candidate = displayName(TheElection.results[2][1])

\* the fill of the feature in the election-results view
ResultsFill == styleFunction("election-results", call.feature).fillColor

(***************************************************************************)
(* C15. For a feature with both records present, the summary's winner is    *)
(* the first entry of its candidate ranking and is the winner whose hue     *)
(* colours the feature; the win margin that picks the tier is that entry's  *)
(* vote share; overall turnout is total votes / registered total x 100.     *)
(* With total votes 10, A = 6, B = 4 and 20 registered: winner A, margin    *)
(* 60%, turnout 50%, ranking [A (60%), B (40%)].                            *)
(***************************************************************************)
C15_SummaryWinnerMarginTurnout ==
    (Summarised /\ ElectionPresent /\ RegistrationPresent) =>
        /\ HasWinner =>
              /\ Val(ret.election).winner = TheRanking[1].candidate
              /\ Val(ret.election).winner = displayName(WinnerEntry[1])
              /\ TheElection.votes > 0 =>
                    /\ ResultsFill =
                          shadeByMargin(WinnerHue,
                                        Pct(TheRanking[1].votes, TheElection.votes))
                    /\ ShowsPercent(TheRanking[1].votePercentage,
                                    WinnerEntry[2], TheElection.votes)
        /\ TheRegistration.total > 0 =>
              /\ IsSome(Val(ret.election).turnoutInfo)
              /\ ShowsPercent(Val(Val(ret.election).turnoutInfo),
                              TheElection.votes, TheRegistration.total)
        /\ (/\ TheElection.votes = 10 /\ TheRegistration.total = 20
            /\ TheElection.results = << <<"cuomo-a", 6>>, <<"mamdani-z", 4>> >>)
           => /\ Val(ret.election).winner = "Cuomo"
              /\ Val(ret.election).turnoutInfo = Some("50.0")
              /\ TheRanking =
                    << [candidate |-> "Cuomo", votes |-> 6, votePercentage |-> "60.0"],
                       [candidate |-> "Mamdani", votes |-> 4, votePercentage |-> "40.0"] >>
              /\ ResultsFill = darkenColor(Get(candidateBaseColors, "cuomo-a")[1], 2)

\* the fixture of the example, summarised
C15_Witness ==
    /\ Summarised /\ ElectionPresent /\ RegistrationPresent
    /\ TheElection.votes = 10 /\ TheRegistration.total = 20
    /\ TheElection.results = << <<"cuomo-a", 6>>, <<"mamdani-z", 4>> >>
    /\ Val(ret.election).winner = "Cuomo"
    /\ TheRanking[1].votePercentage = "60.0"

(***************************************************************************)
(* C16. The summary of a precinct holds every derived metric available from *)
(* its joined records whichever view mode is active: the summary built in   *)
(* one view mode is the summary built in any other, and targeted-candidate  *)
(* support is in it whenever both records are present and the registered    *)
(* total is positive.                                                       *)
(***************************************************************************)
C16_SummaryIndependentOfViewMode ==
    Summarised =>
        /\ \A mode \in PrecinctModes : onEachPrecinct(call.feature, mode) = ret
        /\ (ElectionPresent /\ RegistrationPresent /\ TheRegistration.total > 0)
              => IsSome(Val(ret.election).zohranSupportInfo)

(***************************************************************************)
(* C17. No input makes the engine fail: for every feature (one without      *)
(* identifier, election record, registration record, or with an election    *)
(* record that lacks the candidate mapping included) and every view mode,   *)
(* styling and summarising return a result and do not throw.                *)
(***************************************************************************)
C17_NeverThrows == (Styled \/ Summarised) => "threw" \notin DOMAIN ret

TheMemoKey == MemoKey(call, viewMode)

(***************************************************************************)
(* C18. Style and summary are deterministic functions of (feature,          *)
(* datasets, view mode): an invocation returns what the first invocation    *)
(* with the same identifier and view mode returned, however many other      *)
(* features were processed in between and in whatever order, and whatever   *)
(* the random sample that decides the logging, so that results can be       *)
(* memoized by (identifier, view mode).                                     *)
(***************************************************************************)
C18_ResultsCanBeMemoized ==
    /\ (Memoized(call) /\ TheMemoKey \in DOMAIN memo.table)
          => memo.table[TheMemoKey] = ret
    /\ call.op = "stylePrecinct" =>
          \A sampled \in BOOLEAN : stylePrecinctOutcome(call.feature, sampled) = ret

\* a sampled (logged) styling of a feature asked for again, after another
\* feature was processed, returning the coloured style memoized first
C18_Witness ==
    /\ call.op = "stylePrecinct"
    /\ memo.hit /\ memo.others
    /\ console = <<"Styling precinct " \o toString(FeatureId)>>
    /\ ret = memo.table[TheMemoKey]
    /\ ret.fillColor # NoData

(***************************************************************************)
(* C19. No styling, lookup or summary operation changes the loaded datasets *)
(* or the feature it is given: over every step the election records (each   *)
(* candidate mapping and its key order included), the registration records  *)
(* and the features with their properties stay as they were.                *)
(***************************************************************************)
C19_DatasetsUnchanged == [][data' = data]_vars

\* a feature coloured for a winner that is not the first entry of the stored
\* candidate mapping: the ranking reordered a copy
C19_Witness ==
    /\ Styled /\ viewMode = "election-results" /\ HasWinner
    /\ WinnerEntry # TheElection.results[1]
    /\ TheElection.results[1][1] # WriteIns
    /\ WinnerHue # NoData
    /\ ret.fillColor \in Tiers(WinnerHue)

\* the positions of the records stored under the identifier that was looked up
LookupMatches ==
    {k \in 1..Len(precincts) : precincts[k].item_id = toString(call.electDist)}

(***************************************************************************)
(* C20. When the election collection holds several records with the same    *)
(* identifier, getPrecinctResults returns the first of them in stored       *)
(* order, wherever the duplicates are.                                      *)
(***************************************************************************)
C20_DuplicatesFirstMatch ==
    (call.op = "getPrecinctResults" /\ LookupMatches # {}) =>
        \E k \in LookupMatches :
            /\ \A j \in LookupMatches : k <= j
            /\ ret.result = Some(precincts[k])

\* two different records under the identifier, after a record of another
\* identifier: the first of the two is returned
C20_Witness ==
    /\ call.op = "getPrecinctResults"
    /\ \E k, j \in LookupMatches :
          /\ 1 < k /\ k < j /\ precincts[k] # precincts[j]
          /\ \A h \in LookupMatches : k <= h
          /\ ret.result = Some(precincts[k])

\* the zero paddings found in stored identifiers
Zeros == {"", "0", "00"}

\* the identifier string denotes the number n, leading zeros allowed
Denotes(id, n) == \E z \in Zeros : id = z \o toString(n)

\* distinct numbers have distinct keys
KeysDistinct == \A a, b \in 0..30 : toString(a) = toString(b) => a = b

(***************************************************************************)
(* C21. Identifier normalization maps a number and every numeric string     *)
(* denoting it, zero-padded or not, to one key, and distinct identifiers to *)
(* distinct keys; hence a lookup finds the election record of the feature's *)
(* precinct whether the record's stored identifier is zero-padded or not.   *)
(***************************************************************************)
C21_JoinIgnoresLeadingZeros ==
    /\ KeysDistinct
    /\ call.op = "getPrecinctResults" =>
          ((\E k \in 1..Len(precincts) : Denotes(precincts[k].item_id, call.electDist))
              => /\ IsSome(ret.result)
                 /\ Denotes(Val(ret.result).item_id, call.electDist))

TurnoutStyled == Styled /\ viewMode = "turnout" /\ ElectionPresent /\ RegistrationPresent

(***************************************************************************)
(* C22. Democratic turnout is total votes / registered Democrats x 100 when *)
(* registered Democrats > 0 and undefined otherwise: in the turnout view a  *)
(* record with democrats = 0 gets the no-data fill and every defined value, *)
(* the ones above 100% included, one of the six ramp colours; the summary   *)
(* omits the Democratic turnout line when democrats = 0 and otherwise       *)
(* prints that quotient.                                                    *)
(***************************************************************************)
C22_PartyTurnoutNeedsDemocrats ==
    /\ NoData \notin Range(TurnoutRamp) /\ Cardinality(Range(TurnoutRamp)) = 6
    /\ TurnoutStyled =>
          IF TheRegistration.democrats = 0
          THEN ret.fillColor = NoData
          ELSE ret.fillColor \in Range(TurnoutRamp)
    /\ (Summarised /\ RegistrationPresent) =>
          /\ TheRegistration.democrats = 0 =>
                /\ Val(ret.registration).demTurnoutInfo = None
                /\ ElectionPresent => Val(ret.election).demTurnoutInfo = None
          /\ (TheRegistration.democrats > 0 /\ ElectionPresent) =>
                /\ IsSome(Val(ret.election).demTurnoutInfo)
                /\ ShowsPercent(Val(Val(ret.election).demTurnoutInfo),
                                TheElection.votes, TheRegistration.democrats)
          /\ IsSome(Val(ret.registration).demTurnoutInfo) =>
                ShowsPercent(Val(Val(ret.registration).demTurnoutInfo),
                             TheElection.votes, TheRegistration.democrats)

\* more votes than registered Democrats: a turnout above 100% in the top bin
C22_Witness ==
    /\ TurnoutStyled
    /\ TheRegistration.democrats > 0
    /\ TheElection.votes > TheRegistration.democrats
    /\ ret.fillColor = TurnoutRamp[6]

\* the attributes of the outline of a tract
StrokeAttributes == {"weight", "color", "fillOpacity", "dashArray"}

\* the style of the same tract with the flag inverted
OtherFlagStyle == styleCensusTract(call.feature, ~call.isPrimaryView)

(***************************************************************************)
(* C23. The isPrimaryView flag of styleCensusTract changes only stroke      *)
(* attributes (weight, stroke colour, fill opacity, dash pattern): for      *)
(* every census tract the fillColor is the same with the flag true and with *)
(* the flag false, and it is one of the 7 ramp colours or the no-data       *)
(* colour.                                                                  *)
(***************************************************************************)
C23_PrimaryFlagKeepsFill ==
    call.op = "styleCensusTract" =>
        /\ ret.fillColor = OtherFlagStyle.fillColor
        /\ \A f \in DOMAIN ret \ StrokeAttributes : ret[f] = OtherFlagStyle[f]
        /\ ret.fillColor \in Range(GenZRamp) \cup {NoData}
        /\ Cardinality(Range(GenZRamp)) = 7

\* a tract in the top bin styled as a secondary layer: thin dashed outline
C23_Witness ==
    /\ call.op = "styleCensusTract" /\ ~call.isPrimaryView
    /\ ret.fillColor = GenZRamp[7]
    /\ ret.weight = "0.5" /\ ret.dashArray = Some("2")
    /\ OtherFlagStyle.weight = "1" /\ OtherFlagStyle.fillColor = GenZRamp[7]

CountyQueried == call.op = "getCountyVoterTotals"

\* the districts whose registration record is of the county
CountyDistricts(county) == {d \in DOMAIN voterCounts : voterCounts[d].county = county}

\* the sum of a field over a set of districts, each counted once
RECURSIVE FieldSum(_, _)
FieldSum(districts, f) ==
    IF districts = {} THEN 0
    ELSE LET d == CHOOSE x \in districts : TRUE
         IN  voterCounts[d][f] + FieldSum(districts \ {d}, f)

(***************************************************************************)
(* C24. getCountyVoterTotals(county) returns, for each of the six party     *)
(* fields and for total, the sum of that field over the registration        *)
(* records whose county is the given county, each record counted exactly    *)
(* once; for a county with no records every field is 0.                     *)
(***************************************************************************)
C24_CountyTotalsSumRecordsOnce ==
    CountyQueried =>
        /\ DOMAIN ret.totals = PartyFields
        /\ \A f \in PartyFields :
              ret.totals[f] = FieldSum(CountyDistricts(call.county), f)

FeaturesJoined == call.op = "addVoterDataToPrecincts"

\* the output feature has every field and property of the input feature, with
\* the same values, and the registration record of its district, if there is one
KeepsFeature(in, out) ==
    /\ DOMAIN out = DOMAIN in
    /\ \A f \in DOMAIN in \ {"properties"} : out[f] = in[f]
    /\ DOMAIN out.properties = DOMAIN in.properties \cup {"voterCounts"}
    /\ \A q \in DOMAIN in.properties : out.properties[q] = in.properties[q]
    /\ out.properties.voterCounts =
          IF in.properties.ElectDist \in DOMAIN voterCounts
          THEN Some(voterCounts[in.properties.ElectDist]) ELSE None

OutputKeepsInput ==
    FeaturesJoined =>
        /\ Len(ret.features) = Len(precinctFeatures)
        /\ \A i \in 1..Len(precinctFeatures) :
              KeepsFeature(precinctFeatures[i], ret.features[i])

(***************************************************************************)
(* C25. addVoterDataToPrecincts returns one feature per input precinct      *)
(* feature, in the same order, each with all of its original fields and     *)
(* properties unchanged and with voterCounts equal to                       *)
(* getVoterCounts(ElectDist), absent when the district has no registration  *)
(* record; the input feature collection is not modified.                    *)
(***************************************************************************)
C25_JoinKeepsFeaturesAndInput ==
    /\ []OutputKeepsInput
    /\ [][precinctFeatures' = precinctFeatures /\ voterCounts' = voterCounts]_vars

\* two features out of district order, the first without a registration record
\* and the second with one
C25_Witness ==
    /\ FeaturesJoined
    /\ Len(ret.features) >= 2
    /\ ret.features[1].properties.ElectDist > ret.features[2].properties.ElectDist
    /\ ~IsSome(ret.features[1].properties.voterCounts)
    /\ IsSome(ret.features[2].properties.voterCounts)
    /\ "voterCounts" \notin DOMAIN precinctFeatures[1].properties

\* the style function that belongs to a precinct view mode, applied to a feature
StyleOfMode(mode, feature) ==
    CASE mode = "election-results" -> stylePrecinctByResults(feature)
      [] mode = "turnout" -> stylePrecinctByTurnout(feature)
      [] mode = "zohran-support" -> stylePrecinctByZohranSupport(feature)
      [] mode = "voter-registration" -> stylePrecinctByVoters(feature)

(***************************************************************************)
(* C26. The view mode starts as election-results, and after any sequence of *)
(* view-mode selections the style applied to a feature of the precinct      *)
(* layer is the one of the style function of the currently selected mode    *)
(* (election-results: stylePrecinctByResults, turnout:                      *)
(* stylePrecinctByTurnout, zohran-support: stylePrecinctByZohranSupport,    *)
(* voter-registration: stylePrecinctByVoters), a function of the current    *)
(* mode, the feature and the datasets alone.                                *)
(***************************************************************************)
C26_StyleFollowsSelectedMode ==
    /\ call.op = "Map" => viewMode = "election-results"
    /\ (Styled /\ viewMode \in PrecinctModes) =>
          ret = StyleOfMode(viewMode, call.feature)

\* the targeted-support view, selected after the initial one, styling a feature
\* with a colour that no other view gives
C26_Witness ==
    /\ Styled /\ viewMode = "zohran-support"
    /\ ret.fillColor = ZohranRamp[8]
    /\ ret = stylePrecinctByZohranSupport(call.feature)
    /\ ret # stylePrecinctByVoters(call.feature)
    /\ ret # stylePrecinctByResults(call.feature)
    /\ ret # stylePrecinctByTurnout(call.feature)

(***************************************************************************)
(* C27. In every reachable state exactly one geometry layer is displayed,   *)
(* the census-tract layer if and only if the view mode is age-demographics; *)
(* hence the map invokes styleCensusTract with isPrimaryView = true only,   *)
(* and no feature of the precinct layer is styled or summarised in the      *)
(* age-demographics mode, whose precinct style (the fall-through to         *)
(* stylePrecinctByVoters) is therefore never applied.                       *)
(***************************************************************************)
C27_OneLayerByMode ==
    /\ displayedLayer \in {"census-tracts", "election-districts"}
    /\ (displayedLayer = "census-tracts") <=> (viewMode = "age-demographics")
    /\ TractStyled =>
          /\ viewMode = "age-demographics"
          /\ call.isPrimaryView
          /\ ret = styleCensusTract(call.feature, TRUE)
    /\ (Styled \/ Summarised) => viewMode # "age-demographics"

\* a tract of the displayed census layer styled as the primary view
C27_Witness ==
    /\ TractStyled /\ displayedLayer = "census-tracts"
    /\ call.isPrimaryView
    /\ ret.fillColor = GenZRamp[5]
    /\ ret.weight = "1" /\ ret.fillOpacity = "0.7"

\* the thresholds of all the tables, in tenths of a percent, each with the
\* values a tenth below and a tenth above it, and a value above 100%
TableThresholds == {0, 25, 50, 75, 100, 150, 200, 250, 300, 400, 500, 600, 700, 800}

Grid == {t + k : t \in TableThresholds, k \in {0, 1}}
        \cup {t - 1 : t \in TableThresholds \ {0}} \cup {1250}

\* the percentage t / 10 as the precinct views and as the tract view hold it
GridPct(t) == <<t, 10>>

GridDouble(t) == <<t, 0, 10>>

\* p <= q for two percentages, and for two doubles
PctLe(p, q) == p[1] * q[2] <= q[1] * p[2]

DoubleLe(x, y) ==
    \/ x[1] * y[3] < y[1] * x[3]
    \/ x[1] * y[3] = y[1] * x[3] /\ x[2] * y[3] <= y[2] * x[3]

\* the five tiers of a hue, from the weakest win to the strongest
TierRamp(hue) ==
    <<lightenColor(hue, 4), lightenColor(hue, 2), hue,
      darkenColor(hue, 2), darkenColor(hue, 3)>>

\* the position of a colour in an ordered ramp
Rank(ramp, color) == CHOOSE i \in 1..Len(ramp) : ramp[i] = color

\* the colours of a ramp are pairwise different: one colour, one bin
Distinct(ramp) == \A i, j \in 1..Len(ramp) : ramp[i] = ramp[j] => i = j

\* on the grid, classify puts every value in a bin of the ramp, and a value
\* that is not larger in a bin that is not higher
MonotoneOnGrid(ramp, classify(_)) ==
    /\ Distinct(ramp)
    /\ \A t \in Grid : classify(t) \in Range(ramp)
    /\ \A s, t \in Grid :
          s <= t => Rank(ramp, classify(s)) <= Rank(ramp, classify(t))

ClassifiersMonotone ==
    /\ MonotoneOnGrid(TurnoutRamp, LAMBDA t : turnoutColor(GridPct(t)))
    /\ MonotoneOnGrid(VotersRamp, LAMBDA t : votersColor(GridPct(t)))
    /\ MonotoneOnGrid(ZohranRamp, LAMBDA t : zohranColor(GridPct(t)))
    /\ MonotoneOnGrid(GenZRamp, LAMBDA t : genZColor(GridDouble(t)))
    /\ \A hue \in BaseHues \cup {NoData} :
          MonotoneOnGrid(TierRamp(hue), LAMBDA t : shadeByMargin(hue, GridPct(t)))

\* the bin of every grid value in each table, and its tier in the results view
\* (the tier does not depend on the hue)
TurnoutBins == [t \in Grid |-> Rank(TurnoutRamp, turnoutColor(GridPct(t)))]

VotersBins == [t \in Grid |-> Rank(VotersRamp, votersColor(GridPct(t)))]

ZohranBins == [t \in Grid |-> Rank(ZohranRamp, zohranColor(GridPct(t)))]

GenZBins == [t \in Grid |-> Rank(GenZRamp, genZColor(GridDouble(t)))]

TierBins == [t \in Grid |-> Rank(TierRamp(NoData), shadeByMargin(NoData, GridPct(t)))]

TiersAlikeInEveryHue ==
    \A hue \in BaseHues \cup {NoData} : \A t \in Grid :
        Rank(TierRamp(hue), shadeByMargin(hue, GridPct(t))) = TierBins[t]

\* the fill given to a metric p is in the ramp, not above the bin of any grid
\* value that is at least p, and not below the bin of any that is at most p
FitsGrid(ramp, fill, below(_), above(_), bins) ==
    /\ fill \in Range(ramp)
    /\ \A t \in Grid :
          /\ below(t) => bins[t] <= Rank(ramp, fill)
          /\ above(t) => Rank(ramp, fill) <= bins[t]

TheMetric == Pct(MetricNum, MetricDen)

TheMargin == Pct(WinnerEntry[2], TheElection.votes)

TheGenZ == calculateGenZPercentage(call.feature.properties.ageGroups,
                                   call.feature.properties.totalPopulation)

ViewRamp(mode) ==
    IF mode = "turnout" THEN TurnoutRamp
    ELSE IF mode = "voter-registration" THEN VotersRamp
    ELSE ZohranRamp

ViewBins(mode) ==
    IF mode = "turnout" THEN TurnoutBins
    ELSE IF mode = "voter-registration" THEN VotersBins
    ELSE ZohranBins

(***************************************************************************)
(* C28. Each threshold classification is monotone in its metric: in the     *)
(* results tiers, the turnout, registration and targeted-support tables and *)
(* the Gen-Z ramp, of two defined percentages a <= b the bin of a is not    *)
(* higher in the view's ordered ramp than the bin of b, and every defined   *)
(* value falls in exactly one bin.  (The percentage is the value the view   *)
(* computed.)                                                               *)
(***************************************************************************)
C28_ClassificationMonotone ==
    /\ ClassifiersMonotone
    /\ TiersAlikeInEveryHue
    /\ MetricDefined =>
          FitsGrid(ViewRamp(viewMode), ret.fillColor,
                   LAMBDA t : PctLe(GridPct(t), TheMetric),
                   LAMBDA t : PctLe(TheMetric, GridPct(t)),
                   ViewBins(viewMode))
    /\ ResultsStyled =>
          FitsGrid(TierRamp(WinnerHue), ret.fillColor,
                   LAMBDA t : PctLe(GridPct(t), TheMargin),
                   LAMBDA t : PctLe(TheMargin, GridPct(t)),
                   TierBins)
    /\ (TractStyled /\ TractPopulation > 0 /\ IsSome(TheGenZ)) =>
          FitsGrid(GenZRamp, ret.fillColor,
                   LAMBDA t : DoubleLe(GridDouble(t), Val(TheGenZ)),
                   LAMBDA t : DoubleLe(Val(TheGenZ), GridDouble(t)),
                   GenZBins)

\* a turnout strictly between two thresholds, in the bin between theirs
C28_Witness ==
    /\ MetricDefined /\ viewMode = "turnout"
    /\ MetricAbove(300) /\ MetricBelow(400)
    /\ ret.fillColor = TurnoutRamp[3]
    /\ turnoutColor(GridPct(299)) = TurnoutRamp[2]
    /\ turnoutColor(GridPct(400)) = TurnoutRamp[4]

\* the results view styled a feature whose winner has no base colour
UnknownWinnerStyled ==
    /\ Styled /\ viewMode = "election-results" /\ HasWinner
    /\ \A i \in 1..Len(candidateBaseColors) : candidateBaseColors[i][1] # WinnerEntry[1]

(***************************************************************************)
(* C29. In the results view, when the winning candidate's key has no entry  *)
(* in the base-colour table, the base hue is the neutral grey #cccccc and   *)
(* the margin tier is still applied to it: the fill is #cccccc only for a   *)
(* margin in [50,60), a darkened grey (#a3a3a3 from 60%, #8e8e8e from 80%)  *)
(* above and a lightened grey (#d6d6d6 from 40%, #e0e0e0 below) under it.   *)
(***************************************************************************)
C29_UnknownWinnerShadedGrey ==
    UnknownWinnerStyled =>
        /\ ret.fillColor = NoData <=> (MarginDefined /\ MarginGe(50) /\ MarginLt(60))
        /\ (MarginDefined /\ MarginGe(80)) =>
              ret.fillColor = Hex("8", "e", "8", "e", "8", "e")
        /\ (MarginDefined /\ MarginGe(60) /\ MarginLt(80)) =>
              ret.fillColor = Hex("a", "3", "a", "3", "a", "3")
        /\ (MarginDefined /\ MarginGe(40) /\ MarginLt(50)) =>
              ret.fillColor = Hex("d", "6", "d", "6", "d", "6")
        /\ (MarginDefined /\ MarginLt(40)) =>
              ret.fillColor = Hex("e", "0", "e", "0", "e", "0")
        /\ ret.fillColor \in Tiers(NoData)

\* a win of an unlisted candidate by 80% of the votes, filled dark grey
C29_Witness ==
    /\ UnknownWinnerStyled /\ MarginDefined /\ MarginGe(80)
    /\ ret.fillColor = darkenColor(NoData, 3)
    /\ ret.fillColor # NoData

\* the last operation was a render of Map: the first one or the one that
\* follows a change of view mode
Rendered == call.op \in {"Map", "setViewMode"}

\* the statistics the render logged
LoggedStatistics == console[4]

\* the features whose identifier, as a string, is the item_id of some record
MatchedFeatures ==
    {i \in 1..Len(electionDistricts) :
        /\ "ElectDist" \in DOMAIN electionDistricts[i].properties
        /\ \E k \in 1..Len(precincts) :
               precincts[k].item_id = toString(electionDistricts[i].properties.ElectDist)}

\* the lookup was for an identifier that no record is stored under
LookupMissed ==
    /\ call.op = "getPrecinctResults"
    /\ "electDist" \in DOMAIN call
    /\ \A k \in 1..Len(precincts) : precincts[k].item_id # toString(call.electDist)

(***************************************************************************)
(* C30. Join diagnostics never interrupt rendering: a lookup for an         *)
(* identifier without record only writes one diagnostic line and returns    *)
(* not-found, and the match statistics computed by a render of Map satisfy  *)
(* 0 <= matchedCount <= number of geometry features, count a feature as     *)
(* matched exactly when some election record's item_id equals its ElectDist *)
(* as a string, and report "0%", without dividing, when there are no        *)
(* geometry features (and matched / features x 100 to one decimal           *)
(* otherwise).                                                              *)
(***************************************************************************)
C30_DiagnosticsDoNotInterrupt ==
    /\ LookupMissed =>
          /\ ret = [result |-> None]
          /\ console = <<"No results found for precinct " \o toString(call.electDist)>>
    /\ Rendered =>
          /\ "threw" \notin DOMAIN ret
          /\ Len(console) = 4
          /\ LoggedStatistics.label = "Matching statistics:"
          /\ LoggedStatistics.totalElectionDistricts = Len(electionDistricts)
          /\ LoggedStatistics.matchedCount \in 0..Len(electionDistricts)
          /\ LoggedStatistics.matchedCount = Cardinality(MatchedFeatures)
          /\ IF Len(electionDistricts) = 0
             THEN LoggedStatistics.matchPercentage = "0%"
             ELSE \E T \in 0..1000 :
                     /\ LoggedStatistics.matchPercentage =
                           toString(T \div 10) \o "." \o Digit[(T % 10) + 1] \o "%"
                     /\ 2 * (T * Len(electionDistricts)
                             - 1000 * Cardinality(MatchedFeatures))
                           <= Len(electionDistricts)
                     /\ 2 * (1000 * Cardinality(MatchedFeatures)
                             - T * Len(electionDistricts))
                           <= Len(electionDistricts)

\* a render over election records and no geometry feature at all
C30_Witness ==
    /\ Rendered /\ call.op = "setViewMode"
    /\ electionDistricts = <<>> /\ precincts # <<>>
    /\ LoggedStatistics.matchedCount = 0
    /\ LoggedStatistics.matchPercentage = "0%"

====
